---- MODULE Spec2Model ----
(***************************************************************************)
(* go-docpdf: the metrics registry (internal/metrics), the request         *)
(* middleware (internal/middleware) and the upload handler                  *)
(* (internal/handler), as state machines over goroutines.                   *)
(*                                                                         *)
(* Every atomic operation on the registry (one atomic.Int64 Add or Load)   *)
(* is one step of the goroutine that performs it, so that every            *)
(* interleaving the Go scheduler allows is a behaviour of the model.        *)
(***************************************************************************)
EXTENDS Integers, Sequences, FiniteSets

\* ------------------------------------------------------------------ bounds
NumThreads == 2      \* goroutines calling the registry / serving requests
MaxCalls == 3        \* ObserveDuration calls started by direct callers, in total
MaxWrites == 2       \* WriteHeader calls of a test's handler, per request

Threads == 1..NumThreads

\* ---------------------------------------------------------- metrics.go
\* var histBuckets = []int64{100, 250, 500, 1000, 2500, 5000, 10000, 30000}
histBuckets == <<100, 250, 500, 1000, 2500, 5000, 10000, 30000>>

NumBuckets == Len(histBuckets)
BucketIdx == 1..NumBuckets

\* Durations (milliseconds) handed to ObserveDuration: zero, a value on a
\* threshold, just above it, between two thresholds, on the largest
\* threshold and beyond it.
MsValues == {0, 100, 101, 30000, 30001}

\* TestConcurrentRace: goroutine n observes int64(n * 10).
RaceMs(t) == (t - 1) * 10

\* Durations used where a render runs beside the observers: one that falls
\* in the last two buckets, one that falls in none.
SmallMs == {10000, 30001}

\* Durations the Metrics middleware measures (time.Since(start), in
\* milliseconds): one on the last threshold, one that falls in no bucket.
DurationMs == {30000, 30001}

AllMs == MsValues \cup SmallMs \cup {RaceMs(t) : t \in Threads}

VARIABLES
    reg,      \* the Registry: counters, gauge and histogram fields
    th,       \* per goroutine: program counter and locals
    rd,       \* the goroutine rendering /metrics: position and text so far
    gh,       \* history (not program state): what has been called so far
    rq,       \* per goroutine: the HTTP request it serves and its locals
    fs        \* the temporary directories that exist, with their files

vars == <<reg, th, rd, gh, rq, fs>>

\* New(): the zero-value Registry.
New ==
    [convSuccess |-> 0, convTimeout |-> 0, convFailed |-> 0, convInFlight |-> 0,
     counts |-> [i \in BucketIdx |-> 0], sum |-> 0, total |-> 0]

IncSuccess(r) == [r EXCEPT !.convSuccess = @ + 1]
IncTimeout(r) == [r EXCEPT !.convTimeout = @ + 1]
IncFailed(r) == [r EXCEPT !.convFailed = @ + 1]
\* (mutant) the increment left out
IncInFlightNothing(r) == r
IncInFlight(r) == [r EXCEPT !.convInFlight = @ + 1]
\* (mutant) the decrement written as Add(1)
DecInFlightAddsOne(r) == [r EXCEPT !.convInFlight = @ + 1]
DecInFlight(r) == [r EXCEPT !.convInFlight = @ - 1]

\* histogram.observe, one atomic Add at a time.
\* h.sum.Add(ms)
observeSum(r, ms) == [r EXCEPT !.sum = @ + ms]
\* h.total.Add(1)
observeTotal(r) == [r EXCEPT !.total = @ + 1]
\* (mutant) the bucket test written ms < le
observeBucketStrict(r, i, ms) ==
    IF ms < histBuckets[i] THEN [r EXCEPT !.counts[i] = @ + 1] ELSE r
\* if ms <= le { h.counts[i].Add(1) }
observeBucket(r, i, ms) ==
    IF ms <= histBuckets[i] THEN [r EXCEPT !.counts[i] = @ + 1] ELSE r

\* ------------------------------------------------------------- goroutines
IdleThread == [pc |-> "idle", ms |-> 0, i |-> 0, after |-> "idle"]

EmptyOut ==
    [success |-> 0, timeout |-> 0, failed |-> 0, inflight |-> 0,
     bucket |-> [i \in BucketIdx |-> 0], inf |-> 0, sum |-> 0, count |-> 0]

NoRender == [pc |-> 0, out |-> EmptyOut]

NoHistory == [calls |-> 0, obs |-> [m \in AllMs |-> 0]]

InObserve(t) == th[t].pc \in {"obs_sum", "obs_total", "obs_bucket"}

Rendering == rd.pc \in 1..14

\* ------------------------------------------------------- middleware.go
\* requestState: the per-request state RequestID puts on the context.
\* present = FALSE is a context without that state.
NoState == [present |-> FALSE, id |-> "", logError |-> "", outcome |-> ""]

\* (mutant) the request gets a state that holds what an earlier request set
NewStateReused(id) ==
    [present |-> TRUE, id |-> id, logError |-> "test error", outcome |-> "success"]
\* state := &requestState{id: id}
NewState(id) == [present |-> TRUE, id |-> id, logError |-> "", outcome |-> ""]

\* fmt's %x of a byte: two lower-case hexadecimal digits.
HexDigit == <<"0", "1", "2", "3", "4", "5", "6", "7", "8", "9", "a", "b", "c", "d", "e", "f">>
Hex(b) == HexDigit[(b \div 16) + 1] \o HexDigit[(b % 16) + 1]

RECURSIVE HexOf(_)
\* fmt's %x of a byte slice.
HexOf(bs) == IF bs = <<>> THEN "" ELSE Hex(Head(bs)) \o HexOf(Tail(bs))

\* (mutant) the groups are printed without the dashes between them
newUUIDNoDashes(b) == HexOf(b)
\* newUUID, given the 16 bytes rand.Read left in b: the version and variant
\* bits are set in b[6] and b[8], then "%08x-%04x-%04x-%04x-%012x" of
\* b[0:4], b[4:6], b[6:8], b[8:10], b[10:16].
newUUID(b) ==
    LET v == [b EXCEPT ![7] = (b[7] % 16) + 64, ![9] = (b[9] % 64) + 128] IN
    HexOf(SubSeq(v, 1, 4)) \o "-" \o HexOf(SubSeq(v, 5, 6)) \o "-"
        \o HexOf(SubSeq(v, 7, 8)) \o "-" \o HexOf(SubSeq(v, 9, 10)) \o "-"
        \o HexOf(SubSeq(v, 11, 16))

\* What rand.Read may leave in the 16 bytes.
EntropyBytes ==
    {[i \in 1..16 |-> x] : x \in {0, 255, 171}} \cup {[i \in 1..16 |-> i * 15]}

\* newUUID() where the identifier itself is of no interest
GeneratedID == "00000000-0000-4000-8000-000000000000"

\* id := r.Header.Get("X-Request-ID"); if id == "" { id = newUUID() }
RequestIDOf(hdr) == IF hdr = "" THEN GeneratedID ELSE hdr

\* RequestID, lines 59-66: the identifier, the state put on the context
\* and the X-Request-ID header set on the response, all before
\* next.ServeHTTP is called.
RequestID(hdr, b) ==
    LET id == IF hdr = "" THEN newUUID(b) ELSE hdr IN
    [state |-> NewState(id), header |-> id]

\* RequestIDFromContext
RequestIDFromContext(st) == IF st.present THEN st.id ELSE ""

\* (mutant) SetOutcome keeps the first value set
SetOutcomeFirstWins(st, v) ==
    IF st.present /\ st.outcome = "" THEN [st EXCEPT !.outcome = v] ELSE st
\* SetOutcome: a no-op when no state is on the context.
SetOutcome(st, v) == IF st.present THEN [st EXCEPT !.outcome = v] ELSE st

\* (mutant) SetLogError without the test for the state
SetLogErrorAlways(st, v) == [st EXCEPT !.logError = v]
\* SetLogError: a no-op when no state is on the context.
SetLogError(st, v) == IF st.present THEN [st EXCEPT !.logError = v] ELSE st

\* Metrics, lines 124-127: outcome := "failed"; the flag replaces it when
\* the state is present and the flag is not empty.
OutcomeOf(st) == IF st.present /\ st.outcome # "" THEN st.outcome ELSE "failed"

\* (mutant) the default branch of the switch counts nothing
CountOutcomeNoDefault(r, outcome) ==
    CASE outcome = "success" -> IncSuccess(r)
      [] outcome = "timeout" -> IncTimeout(r)
      [] OTHER -> r
\* Metrics, lines 128-135: the switch on outcome.
CountOutcome(r, outcome) ==
    CASE outcome = "success" -> IncSuccess(r)
      [] outcome = "timeout" -> IncTimeout(r)
      [] OTHER -> IncFailed(r)

\* Values an inner handler may pass to SetOutcome: the two the switch of
\* Metrics knows, the empty string and a value it does not know.
OutcomeValues == {"success", "timeout", "", "partial"}

\* ---------------------------------------------------------- handler.go
\* (the handler package's source, src/internal/handler/handler_test.go
\* lines 253-382)
\* const maxFileSize = 10 << 20
maxFileSize == 10485760

\* http.MaxBytesReader(w, r.Body, maxFileSize+4096)
maxBodySize == maxFileSize + 4096

\* var docxMagic = [4]byte{0x50, 0x4B, 0x03, 0x04}
docxMagic == <<80, 75, 3, 4>>

\* A byte slice is modelled by its length and its first (up to) four bytes.
NoData == [len |-> 0, head |-> <<>>]

Min(a, b) == IF a <= b THEN a ELSE b

\* (mutant) only the first two bytes (PK) are compared
hasDocxMagicTwoBytes(data) ==
    IF data.len < 4 THEN FALSE
    ELSE SubSeq(data.head, 1, 2) = SubSeq(docxMagic, 1, 2)
\* hasDocxMagic: len(data) >= 4 and data[:4] == docxMagic
hasDocxMagic(data) ==
    IF data.len < 4 THEN FALSE ELSE SubSeq(data.head, 1, 4) = docxMagic

\* r.ParseMultipartForm(maxFileSize) over the capped body: it fails when the
\* body is not multipart or is longer than the cap.
ParseMultipartForm(req) == req.multipart /\ req.bodyLen <= maxBodySize

\* r.FormFile("file")
FormFile(req) == req.field = "file"

\* (mutant) the reader limited to maxFileSize bytes, without the extra one
ReadLimitedNoExtraByte(req) == [len |-> Min(req.size, maxFileSize), head |-> req.head]
\* io.ReadAll(&io.LimitedReader{R: f, N: maxFileSize + 1})
ReadLimited(req) == [len |-> Min(req.size, maxFileSize + 1), head |-> req.head]

NoBody == [kind |-> "none", error |-> "", bytes |-> <<>>]
NoResp == [status |-> 0, ctype |-> "", clen |-> <<>>, body |-> NoBody]

\* writeError: {"error": msg} as JSON with the given status.
writeError(status, msg) ==
    [status |-> status, ctype |-> "application/json", clen |-> <<>>,
     body |-> [kind |-> "json", error |-> msg, bytes |-> <<>>]]

RECURSIVE Itoa(_)
\* fmt.Sprintf("%d", n) for n >= 0: the decimal digits of n.
Itoa(n) == IF n < 10 THEN <<n>> ELSE Itoa(n \div 10) \o <<n % 10>>

\* (mutant) the signature is checked before the size
ValidateMagicFirst(req) ==
    IF req.method # "POST" THEN writeError(405, "method not allowed")
    ELSE IF ~ParseMultipartForm(req) THEN writeError(413, "file too large")
    ELSE IF ~FormFile(req) THEN writeError(400, "missing file field")
    ELSE IF ~hasDocxMagic(ReadLimited(req)) THEN writeError(415, "unsupported file type")
    ELSE IF ReadLimited(req).len > maxFileSize THEN writeError(413, "file too large")
    ELSE NoResp
\* Convert.ServeHTTP, lines 287-322: the checks before any file is staged.
\* The error response of the first check that fails, NoResp when all pass.
\* (io.ReadAll reads the parsed form's copy of the file, in memory or in an
\* open temporary file; its error branch needs a failing device and is not
\* taken here.)
Validate(req) ==
    IF req.method # "POST" THEN writeError(405, "method not allowed")
    ELSE IF ~ParseMultipartForm(req) THEN writeError(413, "file too large")
    ELSE IF ~FormFile(req) THEN writeError(400, "missing file field")
    ELSE IF ReadLimited(req).len > maxFileSize THEN writeError(413, "file too large")
    ELSE IF ~hasDocxMagic(ReadLimited(req)) THEN writeError(415, "unsupported file type")
    ELSE NoResp

\* (mutant) err == target, the chain is not unwrapped
errorsIsSame(err, target) == err # <<>> /\ err = <<target>>
\* errors.Is(err, target), an error being the chain of what it wraps.
errorsIs(err, target) == \E k \in 1..Len(err) : err[k] = target

\* The bytes of "docpdf-", the prefix os.MkdirTemp("", "docpdf-*") gives
\* every temporary directory's name.
tempPrefix == <<100, 111, 99, 112, 100, 102, 45>>

\* The temporary directories os.MkdirTemp("", "docpdf-*") can name.
Dirs == 1..NumThreads

EmptyDir == [hasInput |-> FALSE, input |-> NoData, hasPdf |-> FALSE, pdf |-> <<>>]
NoDirs == [d \in {} |-> EmptyDir]

NoPath == [dir |-> 0, name |-> ""]

\* (mutant) the artifact is read from whichever directory has one
ReadFileAnyDir(files, path) ==
    IF \E d \in DOMAIN files : files[d].hasPdf
    THEN [ok |-> TRUE,
          data |-> files[CHOOSE d \in DOMAIN files :
                           /\ files[d].hasPdf
                           /\ \A e \in DOMAIN files : files[e].hasPdf => d <= e].pdf]
    ELSE [ok |-> FALSE, data |-> <<>>]
\* os.ReadFile(path)
ReadFile(files, path) ==
    IF path.dir \in DOMAIN files /\ path.name = "input.pdf" /\ files[path.dir].hasPdf
    THEN [ok |-> TRUE, data |-> files[path.dir].pdf]
    ELSE [ok |-> FALSE, data |-> <<>>]

\* (mutant) every temporary directory is removed
RemoveAllDirs(files, d) == [x \in {} |-> files[x]]
\* (mutant) nothing is removed
RemoveAllNothing(files, d) == files
\* os.RemoveAll(dir)
RemoveAll(files, d) == [x \in DOMAIN files \ {d} |-> files[x]]

\* (mutant) the error of Convert is sent as the message of the 500
RespondWithCause(convErr, pdfPath, files) ==
    IF convErr # <<>>
    THEN IF errorsIs(convErr, "ErrTimeout")
         THEN writeError(504, "conversion timed out")
         ELSE writeError(500, convErr[Len(convErr)])
    ELSE LET f == ReadFile(files, pdfPath) IN
         IF ~f.ok \/ Len(f.data) = 0
         THEN writeError(500, "conversion produced no output")
         ELSE [status |-> 200, ctype |-> "application/pdf",
               clen |-> Itoa(Len(f.data)),
               body |-> [kind |-> "pdf", error |-> "", bytes |-> f.data]]
\* (mutant) an artifact that was read is sent whatever its length
RespondNoEmptyCheck(convErr, pdfPath, files) ==
    IF convErr # <<>>
    THEN IF errorsIs(convErr, "ErrTimeout")
         THEN writeError(504, "conversion timed out")
         ELSE writeError(500, "conversion failed")
    ELSE LET f == ReadFile(files, pdfPath) IN
         IF ~f.ok
         THEN writeError(500, "conversion produced no output")
         ELSE [status |-> 200, ctype |-> "application/pdf",
               clen |-> Itoa(Len(f.data)),
               body |-> [kind |-> "pdf", error |-> "", bytes |-> f.data]]
\* (mutant) the Content-Length header is not set
RespondNoContentLength(convErr, pdfPath, files) ==
    IF convErr # <<>>
    THEN IF errorsIs(convErr, "ErrTimeout")
         THEN writeError(504, "conversion timed out")
         ELSE writeError(500, "conversion failed")
    ELSE LET f == ReadFile(files, pdfPath) IN
         IF ~f.ok \/ Len(f.data) = 0
         THEN writeError(500, "conversion produced no output")
         ELSE [status |-> 200, ctype |-> "application/pdf", clen |-> <<>>,
               body |-> [kind |-> "pdf", error |-> "", bytes |-> f.data]]
\* Convert.ServeHTTP, lines 339-358: the response after Convert returned.
Respond(convErr, pdfPath, files) ==
    IF convErr # <<>>
    THEN IF errorsIs(convErr, "ErrTimeout")
         THEN writeError(504, "conversion timed out")
         ELSE writeError(500, "conversion failed")
    ELSE LET f == ReadFile(files, pdfPath) IN
         IF ~f.ok \/ Len(f.data) = 0
         THEN writeError(500, "conversion produced no output")
         ELSE [status |-> 200, ctype |-> "application/pdf",
               clen |-> Itoa(Len(f.data)),
               body |-> [kind |-> "pdf", error |-> "", bytes |-> f.data]]

\* -------------------------------------------------------- converter.go
RECURSIVE LastIndex(_, _, _)
\* The last position at or before k where s has the character c, 0 if none.
LastIndex(s, c, k) ==
    IF k = 0 THEN 0
    ELSE IF SubSeq(s, k, k) = c THEN k ELSE LastIndex(s, c, k - 1)

RECURSIVE TrimSlashes(_)
TrimSlashes(s) ==
    IF Len(s) > 1 /\ SubSeq(s, Len(s), Len(s)) = "/"
    THEN TrimSlashes(SubSeq(s, 1, Len(s) - 1)) ELSE s

\* filepath.Base: the last element of the path, trailing slashes removed.
Base(path) ==
    IF path = "" THEN "."
    ELSE LET q == TrimSlashes(path) IN
         IF q = "/" THEN "/"
         ELSE SubSeq(q, LastIndex(q, "/", Len(q)) + 1, Len(q))

\* filepath.Ext: the suffix from the final dot on, "" when there is no dot.
Ext(name) ==
    LET d == LastIndex(name, ".", Len(name)) IN
    IF d = 0 THEN "" ELSE SubSeq(name, d, Len(name))

\* strings.TrimSuffix
TrimSuffix(str, suffix) ==
    IF Len(suffix) <= Len(str) /\ SubSeq(str, Len(str) - Len(suffix) + 1, Len(str)) = suffix
    THEN SubSeq(str, 1, Len(str) - Len(suffix)) ELSE str

\* filepath.Join of a clean directory and a name
Join(dir, name) == dir \o "/" \o name

\* Convert, lines 82-84: the path where the PDF is expected.
pdfPathOf(inputPath, outDir) ==
    LET base == Base(inputPath) IN
    Join(outDir, TrimSuffix(base, Ext(base)) \o ".pdf")

\* (mutant) HOME is left as the server's own
cmdEnvInherited(outDir) ==
    [home |-> "/root", profile |-> "file://" \o outDir \o "/lo-profile"]
\* Convert, lines 69-72: what cmd.Env gives the subprocess for HOME and
\* UserInstallation (appended last, they override the inherited ones).
cmdEnv(outDir) ==
    [home |-> outDir, profile |-> "file://" \o outDir \o "/lo-profile"]

\* os.Stat(path) over the files present
Stat(files, path) ==
    IF \E f \in files : f.path = path
    THEN [ok |-> TRUE, size |-> (CHOOSE f \in files : f.path = path).size]
    ELSE [ok |-> FALSE, size |-> 0]

\* (mutant) CombinedOutput reports no error for a killed subprocess
WaitErrorIgnoresKill(proc, code) ==
    IF proc = "killed" THEN ""
    ELSE IF code # 0 THEN "exit status 1" ELSE ""
\* The error of cmd.CombinedOutput() once the subprocess has ended and its
\* output has been read: "" is nil.
WaitError(proc, code) ==
    IF proc = "killed" THEN "signal: killed"
    ELSE IF code # 0 THEN "exit status 1" ELSE ""

\* (mutant) the error of the command is returned as it is
ConvertErrorUnwrapped(elapsed, cerr) ==
    [path |-> "", err |-> IF elapsed THEN <<"ErrTimeout">> ELSE <<cerr>>]
\* Convert, lines 75-78: ctx.Err() == context.DeadlineExceeded gives
\* ErrTimeout, anything else fmt.Errorf("%w: %w", ErrConversionFailed, err).
ConvertError(elapsed, cerr) ==
    [path |-> "",
     err |-> IF elapsed THEN <<"ErrTimeout">> ELSE <<"ErrConversionFailed", cerr>>]

\* (mutant) the size of the artifact is not looked at
ConvertResultNoSize(files, inputPath, outDir) ==
    IF ~Stat(files, pdfPathOf(inputPath, outDir)).ok
    THEN [path |-> "", err |-> <<"ErrNoOutput">>]
    ELSE [path |-> pdfPathOf(inputPath, outDir), err |-> <<>>]
\* Convert, lines 82-91: the artifact is looked for; ErrNoOutput when it is
\* missing or empty.
ConvertResult(files, inputPath, outDir) ==
    LET info == Stat(files, pdfPathOf(inputPath, outDir)) IN
    IF ~info.ok \/ info.size = 0
    THEN [path |-> "", err |-> <<"ErrNoOutput">>]
    ELSE [path |-> pdfPathOf(inputPath, outDir), err |-> <<>>]

\* The subprocess, as the fake binaries of the converter tests: whether it
\* can be started at all, what it writes, how it exits (-1: it does not, on
\* its own) and whether it leaves a child that keeps its output pipe open.
\* write: "pdf" the artifact where LibreOffice puts it, "empty" the same
\* with no content, "other" a PDF under another name, "subdir" the artifact
\* one directory down.
NoScript == [start |-> FALSE, write |-> "none", exit |-> 0, fork |-> FALSE]

Scripts ==
    {NoScript} \cup
    [start : {TRUE}, write : {"none", "pdf", "empty", "other", "subdir"},
     exit : {0, 1, -1}, fork : BOOLEAN]

\* The input files, and the name LibreOffice gives the PDF of each.
Inputs ==
    {[path |-> "/in/input.docx", stem |-> "input"],
     [path |-> "/in/report.v2.docx", stem |-> "report.v2"],
     [path |-> "/in/noext", stem |-> "noext"]}

\* outDir of the call by goroutine t (t.TempDir(): one for each).
OutDirOf(t) == "/tmp/t" \o HexDigit[t + 1]

\* What the subprocess writes.
Written(write, stem, outDir) ==
    CASE write = "pdf" -> {[path |-> outDir \o "/" \o stem \o ".pdf", size |-> 5]}
      [] write = "empty" -> {[path |-> outDir \o "/" \o stem \o ".pdf", size |-> 0]}
      [] write = "other" -> {[path |-> outDir \o "/output.pdf", size |-> 5]}
      [] write = "subdir" -> {[path |-> outDir \o "/sub/" \o stem \o ".pdf", size |-> 5]}
      [] OTHER -> {}

NoEnv == [home |-> "", profile |-> ""]
NoRet == [path |-> "", err |-> <<>>]

\* A call of LibreOffice.Convert:
\*   elapsed  the deadline of ctx has passed (ctx.Err() is DeadlineExceeded)
\*   proc     "none", "running", "exited", "killed"
\*   pipe     some process still holds the write end of the output pipe
\*   files    the files the subprocess has written
\*   cerr     the error of cmd.CombinedOutput()
\*   ret      what Convert returned
NoCall ==
    [input |-> "", stem |-> "", outDir |-> "", script |-> NoScript, elapsed |-> FALSE,
     proc |-> "none", code |-> 0, pipe |-> FALSE, wrote |-> FALSE, files |-> {},
     env |-> NoEnv, cerr |-> "", ret |-> NoRet]

\* ----------------------------------------------------- inputs (requests)
Magic == docxMagic
Heads ==
    {<<>>, <<80>>, <<80, 75, 3>>, Magic, <<80, 75, 3, 5>>, <<0, 75, 3, 4>>,
     <<72, 101, 108, 108>>}

\* File sizes around the four-byte signature and around the 10 MiB cap.
Sizes ==
    {0, 1, 3, 4, 1024, maxFileSize, maxFileSize + 1, maxFileSize + 3000,
     11 * 1048576}

\* Bytes of the multipart body besides the file: boundary and part headers
\* alone, or with other form fields as well.
Overheads == {200, 5000}

Upload(method, multipart, field, size, head, ov) ==
    [method |-> method, path |-> "/convert", xid |-> "", multipart |-> multipart,
     field |-> field, size |-> size, head |-> head, bodyLen |-> size + ov]

\* Requests handed to the handler alone.
UploadRequests ==
    {r \in {Upload(m, mp, f, sz, h, ov) :
                m \in {"POST", "GET"}, mp \in BOOLEAN, f \in {"file", "other"},
                sz \in Sizes, h \in Heads, ov \in Overheads} :
        Len(r.head) = Min(r.size, 4)}

\* Requests sent to the server.
ServerRequests ==
    {Upload("POST", TRUE, "file", 1024, Magic, 200),
     Upload("POST", TRUE, "file", maxFileSize + 1, Magic, 200),
     Upload("POST", TRUE, "file", 1024, <<72, 101, 108, 108>>, 200),
     Upload("POST", TRUE, "other", 0, <<>>, 200),
     [Upload("GET", FALSE, "other", 0, <<>>, 0) EXCEPT !.bodyLen = 0],
     [Upload("GET", FALSE, "other", 0, <<>>, 0) EXCEPT !.bodyLen = 0, !.path = "/health"],
     [Upload("GET", FALSE, "other", 0, <<>>, 0) EXCEPT !.bodyLen = 0, !.path = "/metrics"]}

\* One request for each route of the mux.
RouteRequests ==
    {[Upload("GET", FALSE, "other", 0, <<>>, 0) EXCEPT !.bodyLen = 0, !.path = p] :
        p \in {"/convert", "/health", "/metrics"}}

\* What a Converter may hand back: a path and no error, or an error. The
\* artifact is what it left at <outDir>/input.pdf (written = FALSE: nothing).
\* The last one is a PDF whose content has the text "docpdf-" in it.
Artifacts ==
    {<<>>, <<37, 80, 68, 70>>, <<37, 80, 68, 70, 45, 49, 46, 52>>,
     <<37, 80, 68, 70>> \o tempPrefix}

ConvErrors ==
    {<<"ErrTimeout">>, <<"wrapped", "ErrTimeout">>,
     <<"ErrConversionFailed", "exit status 1">>, <<"ErrNoOutput">>,
     <<"conversion failed">>}

ConvResults ==
    {[err |-> <<>>, written |-> TRUE, pdf |-> a, name |-> "input.pdf"] : a \in Artifacts}
    \cup {[err |-> <<>>, written |-> FALSE, pdf |-> <<>>, name |-> "input.pdf"]}
    \cup {[err |-> e, written |-> FALSE, pdf |-> <<>>, name |-> ""] : e \in ConvErrors}
    \cup {[err |-> <<"ErrTimeout">>, written |-> TRUE, pdf |-> <<37, 80, 68, 70>>, name |-> ""]}

NoConv == [err |-> <<>>, written |-> FALSE, pdf |-> <<>>, name |-> ""]

\* What a test's handler does with its request: the X-Request-ID header the
\* request comes with, and the calls of SetOutcome (fn "outcome") and
\* SetLogError (fn "logError") the handler makes, in order, before it returns.
NoPlan == [xid |-> "", calls |-> <<>>]

Plans ==
    {[xid |-> "abc-123",
      calls |-> <<[fn |-> "outcome", v |-> "success"], [fn |-> "outcome", v |-> "timeout"]>>],
     [xid |-> "my-existing-id",
      calls |-> <<[fn |-> "outcome", v |-> "timeout"], [fn |-> "logError", v |-> "test error"],
                  [fn |-> "outcome", v |-> "success"]>>],
     [xid |-> "",
      calls |-> <<[fn |-> "logError", v |-> "test error"], [fn |-> "outcome", v |-> "success"],
                  [fn |-> "logError", v |-> ""], [fn |-> "outcome", v |-> ""]>>]}

\* Per goroutine: the request it serves and the locals of its handlers.
\*   chain    the middleware around the handler, outermost first
\*   handler  "convert" (the upload handler), "inner" (a test's handler)
\*   st       the requestState on the context
\*   rec      responseRecorder.status
\*   conv     what Converter.Convert returned (history)
\*   nconv    calls of Converter.Convert made (history)
\*   nresp    calls of w.WriteHeader made (history)
\*   hdrId    the response header X-Request-ID
\*   captured what RequestIDFromContext gave the handler of a test
NoRequest ==
    [chain |-> <<>>, handler |-> "", req |-> Upload("", FALSE, "", 0, <<>>, 0),
     st |-> NoState, resp |-> NoResp, rec |-> 0, data |-> NoData, tmpDir |-> 0,
     pdfPath |-> NoPath, convErr |-> <<>>, conv |-> NoConv, nconv |-> 0,
     nresp |-> 0, hdrId |-> "", captured |-> "", logged |-> FALSE, cv |-> NoCall,
     out |-> EmptyOut, log |-> <<>>, plan |-> NoPlan]

Init ==
    /\ reg = New
    /\ th = [t \in Threads |-> IdleThread]
    /\ rd = NoRender
    /\ gh = NoHistory
    /\ rq = [t \in Threads |-> NoRequest]
    /\ fs = NoDirs

\* A goroutine calls ObserveDuration(ms): the call begins.
CallObserve(t) ==
    /\ th[t].pc = "idle"
    /\ gh.calls < MaxCalls
    /\ \E ms \in MsValues :
          th' = [th EXCEPT ![t] = [pc |-> "obs_sum", ms |-> ms, i |-> 0, after |-> "idle"]]
    /\ gh' = [gh EXCEPT !.calls = @ + 1]
    /\ UNCHANGED <<reg, rd, rq, fs>>

\* histogram.observe line 25
ObserveSum(t) ==
    /\ th[t].pc = "obs_sum"
    /\ reg' = observeSum(reg, th[t].ms)
    /\ th' = [th EXCEPT ![t].pc = "obs_total"]
    /\ UNCHANGED <<rd, gh, rq, fs>>

\* histogram.observe line 26
ObserveTotal(t) ==
    /\ th[t].pc = "obs_total"
    /\ reg' = observeTotal(reg)
    /\ th' = [th EXCEPT ![t].pc = "obs_bucket", ![t].i = 1]
    /\ UNCHANGED <<rd, gh, rq, fs>>

\* histogram.observe lines 27-31: one iteration of the loop; the call
\* returns after the last one.
ObserveBucket(t) ==
    /\ th[t].pc = "obs_bucket"
    /\ reg' = observeBucket(reg, th[t].i, th[t].ms)
    /\ IF th[t].i < NumBuckets
          THEN /\ th' = [th EXCEPT ![t].i = @ + 1]
               /\ gh' = gh
          ELSE /\ th' = [th EXCEPT ![t] = [IdleThread EXCEPT !.pc = th[t].after]]
               /\ gh' = [gh EXCEPT !.obs[th[t].ms] = @ + 1]
    /\ UNCHANGED <<rd, rq, fs>>

\* Registry.writeTo: one atomic Load per step, in the order of the source.
\* rd.pc counts the loads done: 1..3 the outcome counters, 4 the gauge,
\* 5..12 the buckets, 13 the total (+Inf line), 14 the sum, 15 the total
\* again (_count line).
RenderStart ==
    /\ rd.pc \in {0, 15}
    /\ rd' = [pc |-> 1, out |-> [EmptyOut EXCEPT !.success = reg.convSuccess]]
    /\ UNCHANGED <<reg, th, gh, rq, fs>>

\* (mutant) the +Inf line rendered from the last finite bucket
writeToStepInfFromBucket(k, out, r) ==
    CASE k = 2 -> [out EXCEPT !.timeout = r.convTimeout]
      [] k = 3 -> [out EXCEPT !.failed = r.convFailed]
      [] k = 4 -> [out EXCEPT !.inflight = r.convInFlight]
      [] k \in 5..12 -> [out EXCEPT !.bucket[k - 4] = r.counts[k - 4]]
      [] k = 13 -> [out EXCEPT !.inf = r.counts[NumBuckets]]
      [] k = 14 -> [out EXCEPT !.sum = r.sum]
      [] k = 15 -> [out EXCEPT !.count = r.total]

writeToStep(k, out, r) ==
    CASE k = 2 -> [out EXCEPT !.timeout = r.convTimeout]
      [] k = 3 -> [out EXCEPT !.failed = r.convFailed]
      [] k = 4 -> [out EXCEPT !.inflight = r.convInFlight]
      [] k \in 5..12 -> [out EXCEPT !.bucket[k - 4] = r.counts[k - 4]]
      [] k = 13 -> [out EXCEPT !.inf = r.total]
      [] k = 14 -> [out EXCEPT !.sum = r.sum]
      [] k = 15 -> [out EXCEPT !.count = r.total]

RenderStep ==
    /\ rd.pc \in 1..14
    /\ rd' = [rd EXCEPT !.pc = @ + 1, !.out = writeToStep(rd.pc + 1, rd.out, reg)]
    /\ UNCHANGED <<reg, th, gh, rq, fs>>


\* ------------------------------------------------ callers of the registry
\* One goroutine, one ObserveDuration call, beside a render.
ScrapeObserve(t) ==
    /\ th[t].pc = "idle"
    /\ \E ms \in SmallMs :
          th' = [th EXCEPT ![t] = [pc |-> "obs_sum", ms |-> ms, i |-> 0, after |-> "done"]]
    /\ gh' = [gh EXCEPT !.calls = @ + 1]
    /\ UNCHANGED <<reg, rd, rq, fs>>

\* TestHistogramBucketPlacement: ObserveDuration calls, then ServeHTTP on a
\* new recorder once they have returned.
PlacementObserve(t) ==
    /\ ~Rendering
    /\ th[t].pc = "idle"
    /\ gh.calls < MaxCalls
    /\ \E ms \in MsValues :
          th' = [th EXCEPT ![t] = [pc |-> "obs_sum", ms |-> ms, i |-> 0, after |-> "idle"]]
    /\ gh' = [gh EXCEPT !.calls = @ + 1]
    /\ rd' = NoRender
    /\ UNCHANGED <<reg, rq, fs>>

PlacementRender ==
    /\ \A t \in Threads : ~InObserve(t)
    /\ RenderStart

\* TestConcurrentRace, the body of goroutine n:
\*   reg.IncInFlight(); reg.ObserveDuration(int64(n * 10))
RaceIncInFlight(t) ==
    /\ th[t].pc = "idle"
    /\ reg' = IncInFlight(reg)
    /\ th' = [th EXCEPT ![t] = [pc |-> "obs_sum", ms |-> RaceMs(t), i |-> 0,
                                 after |-> "race_success"]]
    /\ gh' = [gh EXCEPT !.calls = @ + 1]
    /\ UNCHANGED <<rd, rq, fs>>

\*   reg.IncSuccess()
RaceIncSuccess(t) ==
    /\ th[t].pc = "race_success"
    /\ reg' = IncSuccess(reg)
    /\ th' = [th EXCEPT ![t].pc = "race_dec"]
    /\ UNCHANGED <<rd, gh, rq, fs>>

\*   reg.DecInFlight()
RaceDecInFlight(t) ==
    /\ th[t].pc = "race_dec"
    /\ reg' = DecInFlight(reg)
    /\ th' = [th EXCEPT ![t].pc = "done"]
    /\ UNCHANGED <<rd, gh, rq, fs>>

\* ------------------------------------------------------ the middleware
HasLayer(t, name) == \E k \in 1..Len(rq[t].chain) : rq[t].chain[k] = name

\* Where a handler returns to: the Metrics middleware after next.ServeHTTP,
\* else the Logging middleware, else the caller.
HandlerRet(t) ==
    IF HasLayer(t, "Metrics") THEN "returned"
    ELSE IF HasLayer(t, "Logging") THEN "log" ELSE "done"

\* Where the Metrics middleware returns to.
MetricsRet(t) == IF HasLayer(t, "Logging") THEN "log" ELSE "done"

\* (mutant) the Metrics middleware around every route
RouteAllMetrics(path) == <<"RequestID", "Logging", "Metrics">>
\* cmd/server main: chain := RequestID(Logging(mux)), and in the mux only
\* /convert is wrapped in Metrics. The layers a request of the path passes,
\* outermost first.
Route(path) ==
    IF path = "/convert" THEN <<"RequestID", "Logging", "Metrics">>
    ELSE <<"RequestID", "Logging">>

\* cmd/server main, the mux: /convert is convertHandler, /health is
\* handler.Health, /metrics is the registry.
HandlerOf(path) ==
    CASE path = "/convert" -> "convert"
      [] path = "/health" -> "health"
      [] path = "/metrics" -> "registry"

\* The first step of a handler.
Entry(handler) ==
    CASE handler = "convert" -> "h_start"
      [] handler = "health" -> "health"
      [] handler = "registry" -> "scrape"
      [] handler = "inner" -> "inner"
      [] handler = "planned" -> "plan"

\* One step: the request is accepted, RequestID makes the state and Logging
\* its recorder (both touch this request only), and the mux picks the route.
AcceptOne(t, req) ==
    /\ th[t].pc = "idle"
    /\ rq' = [rq EXCEPT ![t] =
                [NoRequest EXCEPT
                   !.chain = Route(req.path),
                   !.handler = HandlerOf(req.path),
                   !.req = req,
                   !.st = NewState(RequestIDOf(req.xid)),
                   !.hdrId = RequestIDOf(req.xid),
                   !.rec = 200]]
    /\ th' = [th EXCEPT ![t].pc =
                IF \E k \in 1..Len(Route(req.path)) : Route(req.path)[k] = "Metrics"
                THEN "metrics" ELSE Entry(HandlerOf(req.path))]
    /\ UNCHANGED <<reg, rd, gh, fs>>

Accept(t) == \E req \in ServerRequests : AcceptOne(t, req)

RouteAccept(t) == \E req \in RouteRequests : AcceptOne(t, req)

\* The middleware tests: Metrics(reg, inner) under RequestID, or alone (a
\* context without request state), around a handler of the test.
TestAccept(t) ==
    /\ th[t].pc = "idle"
    /\ \E withState \in BOOLEAN :
          rq' = [rq EXCEPT ![t] =
                   [NoRequest EXCEPT
                      !.chain = IF withState THEN <<"RequestID", "Metrics">>
                                ELSE <<"Metrics">>,
                      !.handler = "inner",
                      !.st = IF withState THEN NewState(RequestIDOf("")) ELSE NoState,
                      !.hdrId = IF withState THEN RequestIDOf("") ELSE ""]]
    /\ th' = [th EXCEPT ![t].pc = "metrics"]
    /\ UNCHANGED <<reg, rd, gh, fs>>

\* TestRequestID_Generated, TestRequestID_Forwarded: RequestID(inner) is
\* given a request with or without an X-Request-ID header.
XidValues == {"", "my-existing-id", "00000000-0000-0000-0000-000000000000"}

RidAccept(t) ==
    /\ th[t].pc = "idle"
    /\ \E hdr \in XidValues, b \in EntropyBytes :
          LET r == RequestID(hdr, b) IN
          rq' = [rq EXCEPT ![t] =
                   [NoRequest EXCEPT
                      !.chain = <<"RequestID">>, !.handler = "inner",
                      !.req = [Upload("GET", FALSE, "", 0, <<>>, 0) EXCEPT
                                 !.path = "/health", !.xid = hdr],
                      !.st = r.state, !.hdrId = r.header]]
    /\ th' = [th EXCEPT ![t].pc = "rid_inner"]
    /\ UNCHANGED <<reg, rd, gh, fs>>

\* The test's inner handler: capturedID = RequestIDFromContext(r.Context());
\* w.WriteHeader(http.StatusOK).
RidInner(t) ==
    /\ th[t].pc = "rid_inner"
    /\ rq' = [rq EXCEPT ![t].captured = RequestIDFromContext(rq[t].st),
                        ![t].resp = [NoResp EXCEPT !.status = 200],
                        ![t].nresp = @ + 1]
    /\ th' = [th EXCEPT ![t].pc = "done"]
    /\ UNCHANGED <<reg, rd, gh, fs>>

\* TestSetOutcome_NoStateNoPanic, TestRequestIDFromContext_NoState: the
\* three helpers called one after the other on a request's context, which
\* has the state of RequestID on it or none.
LogErrorValues == {"", "something"}

HelperStart(t) ==
    /\ th[t].pc = "idle"
    /\ \E withState \in BOOLEAN :
          rq' = [rq EXCEPT ![t] =
                   [NoRequest EXCEPT
                      !.st = IF withState THEN NewState(GeneratedID) ELSE NoState]]
    /\ th' = [th EXCEPT ![t].pc = "k_outcome"]
    /\ UNCHANGED <<reg, rd, gh, fs>>

HelperSetOutcome(t) ==
    /\ th[t].pc = "k_outcome"
    /\ \E v \in OutcomeValues : rq' = [rq EXCEPT ![t].st = SetOutcome(@, v)]
    /\ th' = [th EXCEPT ![t].pc = "k_logerr"]
    /\ UNCHANGED <<reg, rd, gh, fs>>

HelperSetLogError(t) ==
    /\ th[t].pc = "k_logerr"
    /\ \E v \in LogErrorValues : rq' = [rq EXCEPT ![t].st = SetLogError(@, v)]
    /\ th' = [th EXCEPT ![t].pc = "k_getid"]
    /\ UNCHANGED <<reg, rd, gh, fs>>

HelperGetID(t) ==
    /\ th[t].pc = "k_getid"
    /\ rq' = [rq EXCEPT ![t].captured = RequestIDFromContext(rq[t].st)]
    /\ th' = [th EXCEPT ![t].pc = "done"]
    /\ UNCHANGED <<reg, rd, gh, fs>>

\* TestMetrics_IncrementsSuccess and the tests after it, with Logging in
\* the chain as in cmd/server: RequestID(Logging(Metrics(reg, inner))),
\* where inner makes the calls of its plan and returns.
PlanAccept(t) ==
    /\ th[t].pc = "idle"
    /\ \E plan \in Plans :
          rq' = [rq EXCEPT ![t] =
                   [NoRequest EXCEPT
                      !.chain = <<"RequestID", "Logging", "Metrics">>,
                      !.handler = "planned",
                      !.req = [Upload("POST", FALSE, "other", 0, <<>>, 0)
                                 EXCEPT !.bodyLen = 0, !.xid = plan.xid],
                      !.plan = plan,
                      !.st = NewState(RequestIDOf(plan.xid)),
                      !.hdrId = RequestIDOf(plan.xid),
                      !.rec = 200]]
    /\ th' = [th EXCEPT ![t].pc = "metrics"]
    /\ UNCHANGED <<reg, rd, gh, fs>>

\* The handler's next call: middleware.SetOutcome(r.Context(), v) or
\* middleware.SetLogError(r.Context(), v). th.i counts the calls made.
PlanCall(t) ==
    /\ th[t].pc = "plan"
    /\ th[t].i < Len(rq[t].plan.calls)
    /\ LET c == rq[t].plan.calls[th[t].i + 1] IN
          rq' = [rq EXCEPT ![t].st = IF c.fn = "outcome" THEN SetOutcome(@, c.v)
                                     ELSE SetLogError(@, c.v)]
    /\ th' = [th EXCEPT ![t].i = @ + 1]
    /\ UNCHANGED <<reg, rd, gh, fs>>

\* The handler has made its calls and returns.
PlanReturn(t) ==
    /\ th[t].pc = "plan"
    /\ th[t].i = Len(rq[t].plan.calls)
    /\ th' = [th EXCEPT ![t].pc = HandlerRet(t), ![t].i = 0]
    /\ UNCHANGED <<reg, rd, gh, rq, fs>>

\* Metrics, lines 115-118: reg.IncInFlight(); start := time.Now(); the call
\* of next.ServeHTTP begins.
MetricsEnter(t) ==
    /\ th[t].pc = "metrics"
    /\ reg' = IncInFlight(reg)
    /\ th' = [th EXCEPT ![t].pc = Entry(rq[t].handler)]
    /\ UNCHANGED <<rd, gh, rq, fs>>

\* A test's inner handler calls middleware.SetOutcome(r.Context(), v).
InnerSetOutcome(t) ==
    /\ th[t].pc = "inner"
    /\ \E v \in OutcomeValues :
          rq' = [rq EXCEPT ![t].st = SetOutcome(@, v)]
    /\ UNCHANGED <<reg, th, rd, gh, fs>>

\* The inner handler writes its status and returns.
InnerReturn(t) ==
    /\ th[t].pc = "inner"
    /\ th' = [th EXCEPT ![t].pc = HandlerRet(t)]
    /\ UNCHANGED <<reg, rd, gh, rq, fs>>

\* The inner handler panics: Metrics defers nothing, so the goroutine
\* unwinds past it and the rest of the middleware never runs.
InnerPanic(t) ==
    /\ th[t].pc = "inner"
    /\ th' = [th EXCEPT ![t].pc = "panicked"]
    /\ UNCHANGED <<reg, rd, gh, rq, fs>>

\* Metrics, lines 120-122: durationMs := time.Since(start).Milliseconds();
\* reg.DecInFlight(); the call of reg.ObserveDuration(durationMs) begins.
MetricsDec(t) ==
    /\ th[t].pc = "returned"
    /\ reg' = DecInFlight(reg)
    /\ \E ms \in DurationMs :
          th' = [th EXCEPT ![t] = [pc |-> "obs_sum", ms |-> ms, i |-> 0, after |-> "outcome"]]
    /\ gh' = [gh EXCEPT !.calls = @ + 1]
    /\ UNCHANGED <<rd, rq, fs>>

\* Metrics, lines 124-135: the outcome flag is read and one counter is
\* incremented.
MetricsOutcome(t) ==
    /\ th[t].pc = "outcome"
    /\ reg' = CountOutcome(reg, OutcomeOf(rq[t].st))
    /\ th' = [th EXCEPT ![t].pc = MetricsRet(t)]
    /\ UNCHANGED <<rd, gh, rq, fs>>

\* (mutant) the error field on every line
LogLineAlwaysError(req, st, status) ==
    [request_id |-> RequestIDFromContext(st), method |-> req.method,
     path |-> req.path, status |-> status, error |-> <<st.logError>>]
\* Logging, lines 93-103: the fields of the log line (time and duration_ms
\* left out); error is <<>> when the line has no error field.
LogLine(req, st, status) ==
    [request_id |-> RequestIDFromContext(st), method |-> req.method,
     path |-> req.path, status |-> status,
     error |-> IF st.present /\ st.logError # "" THEN <<st.logError>> ELSE <<>>]

\* TestLogging_EmitsJSON, TestLogging_JSONFields: Logging(inner) under
\* RequestID, given a request with an X-Request-ID header.
LogAccept(t) ==
    /\ th[t].pc = "idle"
    /\ rq' = [rq EXCEPT ![t] =
                [NoRequest EXCEPT
                   !.chain = <<"RequestID", "Logging">>,
                   !.handler = "inner",
                   !.req = [Upload("POST", FALSE, "other", 0, <<>>, 0)
                              EXCEPT !.bodyLen = 0, !.xid = "abc-123"],
                   !.st = NewState(RequestIDOf("abc-123")),
                   !.hdrId = RequestIDOf("abc-123"),
                   !.rec = 200]]
    /\ th' = [th EXCEPT ![t].pc = "inner"]
    /\ UNCHANGED <<reg, rd, gh, fs>>

\* A test's inner handler calls middleware.SetLogError(r.Context(), v).
TestErrors == {"", "test error"}

InnerSetLogError(t) ==
    /\ th[t].pc = "inner"
    /\ \E v \in TestErrors :
          rq' = [rq EXCEPT ![t].st = SetLogError(@, v)]
    /\ UNCHANGED <<reg, th, rd, gh, fs>>

\* responseRecorder.WriteHeader: rr.status = code
recordStatus(status, code) == code

\* rr.ResponseWriter.WriteHeader(code): the writer below keeps the status
\* of the first call (n: the calls made before this one).
underlyingStatus(status, code, n) == IF n = 0 THEN code ELSE status

\* A test's inner handler calls w.WriteHeader(code) on the recorder.
TestCodes == {204, 400}

InnerWriteHeader(t) ==
    /\ th[t].pc = "inner"
    /\ rq[t].nresp < MaxWrites
    /\ \E code \in TestCodes :
          rq' = [rq EXCEPT
                   ![t].rec = recordStatus(@, code),
                   ![t].resp = [@ EXCEPT !.status = underlyingStatus(@, code, rq[t].nresp)],
                   ![t].nresp = @ + 1]
    /\ UNCHANGED <<reg, th, rd, gh, fs>>

\* Logging, lines 92-106: the log line, after next.ServeHTTP returned.
LoggingEmit(t) ==
    /\ th[t].pc = "log"
    /\ rq' = [rq EXCEPT ![t].logged = TRUE,
                        ![t].log = Append(@, LogLine(rq[t].req, rq[t].st, rq[t].rec))]
    /\ th' = [th EXCEPT ![t].pc = "done"]
    /\ UNCHANGED <<reg, rd, gh, fs>>

\* handler.Health
Health(t) ==
    /\ th[t].pc = "health"
    /\ rq' = [rq EXCEPT ![t].resp =
                [status |-> 200, ctype |-> "application/json", clen |-> <<>>,
                 body |-> [kind |-> "health", error |-> "", bytes |-> <<>>]],
              ![t].rec = 200, ![t].nresp = @ + 1]
    /\ th' = [th EXCEPT ![t].pc = HandlerRet(t)]
    /\ UNCHANGED <<reg, rd, gh, fs>>

\* Registry.ServeHTTP as the handler of /metrics: the content type and
\* WriteHeader(200), then writeTo's loads, one per step (th.i counts them,
\* as rd.pc does in RenderStep), into the body of this request.
ServeMetrics(t) ==
    /\ th[t].pc = "scrape"
    /\ LET k == th[t].i + 1 IN
       /\ rq' = IF k = 1
                THEN [rq EXCEPT ![t].out = [@ EXCEPT !.success = reg.convSuccess],
                                ![t].resp = [status |-> 200,
                                             ctype |-> "text/plain; version=0.0.4; charset=utf-8",
                                             clen |-> <<>>,
                                             body |-> [kind |-> "metrics", error |-> "",
                                                       bytes |-> <<>>]],
                                ![t].rec = 200, ![t].nresp = @ + 1]
                ELSE [rq EXCEPT ![t].out = writeToStep(k, @, reg)]
       /\ th' = IF k < 15 THEN [th EXCEPT ![t].i = k]
                ELSE [th EXCEPT ![t].pc = HandlerRet(t), ![t].i = 0]
    /\ UNCHANGED <<reg, rd, gh, fs>>

\* -------------------------------------------------- the upload handler
\* Convert.ServeHTTP, lines 287-322: the method, the multipart form, the
\* file field, its size and its signature. A failed check writes its error
\* and returns.
HValidate(t) ==
    /\ th[t].pc = "h_start"
    /\ LET v == Validate(rq[t].req) IN
       IF v.status # 0
       THEN /\ rq' = [rq EXCEPT ![t].resp = v, ![t].rec = v.status, ![t].nresp = @ + 1]
            /\ th' = [th EXCEPT ![t].pc = HandlerRet(t)]
       ELSE /\ rq' = [rq EXCEPT ![t].data = ReadLimited(rq[t].req)]
            /\ th' = [th EXCEPT ![t].pc = "h_mkdir"]
    /\ UNCHANGED <<reg, rd, gh, fs>>

\* lines 324-329: os.MkdirTemp fails (500), or makes a directory no other
\* has; defer os.RemoveAll(tmpDir).
HMkdirTempFails(t) ==
    /\ th[t].pc = "h_mkdir"
    /\ rq' = [rq EXCEPT ![t].resp = writeError(500, "internal error"), ![t].rec = 500,
                        ![t].nresp = @ + 1]
    /\ th' = [th EXCEPT ![t].pc = HandlerRet(t)]
    /\ UNCHANGED <<reg, rd, gh, fs>>

HMkdirTemp(t) ==
    /\ th[t].pc = "h_mkdir"
    /\ \E d \in Dirs \ DOMAIN fs :
          /\ fs' = [x \in DOMAIN fs \cup {d} |-> IF x = d THEN EmptyDir ELSE fs[x]]
          /\ rq' = [rq EXCEPT ![t].tmpDir = d]
    /\ th' = [th EXCEPT ![t].pc = "h_write"]
    /\ UNCHANGED <<reg, rd, gh>>

\* lines 331-335: os.WriteFile(inputPath, data, 0600) fails (500), or
\* writes the upload to <tmpDir>/input.docx.
HWriteFileFails(t) ==
    /\ th[t].pc = "h_write"
    /\ rq' = [rq EXCEPT ![t].resp = writeError(500, "internal error"), ![t].rec = 500,
                        ![t].nresp = @ + 1]
    /\ th' = [th EXCEPT ![t].pc = "h_defer"]
    /\ UNCHANGED <<reg, rd, gh, fs>>

HWriteFile(t) ==
    /\ th[t].pc = "h_write"
    /\ fs' = [fs EXCEPT ![rq[t].tmpDir].hasInput = TRUE, ![rq[t].tmpDir].input = rq[t].data]
    /\ th' = [th EXCEPT ![t].pc = "h_convert"]
    /\ UNCHANGED <<reg, rd, gh, rq>>

\* line 337: h.conv.Convert(context.Background(), inputPath, tmpDir) is
\* called; the handler waits for it.
HConvert(t) ==
    /\ th[t].pc = "h_convert"
    /\ rq' = [rq EXCEPT ![t].nconv = @ + 1]
    /\ th' = [th EXCEPT ![t].pc = "converting"]
    /\ UNCHANGED <<reg, rd, gh, fs>>

\* (mutant) a failed conversion is tried again
AfterConvertRetry(err) == IF err # <<>> THEN "h_convert" ELSE "h_result"
\* lines 337-339: Convert is called in straight-line code, outside any
\* loop; whatever it returns, the handler goes on to look at the result.
AfterConvert(err) == "h_result"

\* Convert returns: what the Converter left in outDir, and its results.
ConvertReturns(t) ==
    /\ th[t].pc = "converting"
    /\ \E res \in ConvResults :
          /\ fs' = IF res.written
                   THEN [fs EXCEPT ![rq[t].tmpDir].hasPdf = TRUE,
                                   ![rq[t].tmpDir].pdf = res.pdf]
                   ELSE fs
          /\ rq' = [rq EXCEPT
                      ![t].convErr = res.err,
                      ![t].pdfPath = IF res.err = <<>>
                                     THEN [dir |-> rq[t].tmpDir, name |-> res.name]
                                     ELSE NoPath,
                      ![t].conv = res]
          /\ th' = [th EXCEPT ![t].pc = AfterConvert(res.err)]
    /\ UNCHANGED <<reg, rd, gh>>

\* lines 339-358: the error of Convert, or the artifact, becomes the
\* response.
HRespond(t) ==
    /\ th[t].pc = "h_result"
    /\ LET v == Respond(rq[t].convErr, rq[t].pdfPath, fs) IN
          rq' = [rq EXCEPT ![t].resp = v, ![t].rec = v.status, ![t].nresp = @ + 1]
    /\ th' = [th EXCEPT ![t].pc = "h_defer"]
    /\ UNCHANGED <<reg, rd, gh, fs>>

\* The deferred os.RemoveAll(tmpDir) runs and ServeHTTP returns.
HDefer(t) ==
    /\ th[t].pc = "h_defer"
    /\ fs' = RemoveAll(fs, rq[t].tmpDir)
    /\ rq' = [rq EXCEPT ![t].data = NoData, ![t].tmpDir = 0,
                        ![t].pdfPath = NoPath, ![t].convErr = <<>>]
    /\ th' = [th EXCEPT ![t].pc = HandlerRet(t)]
    /\ UNCHANGED <<reg, rd, gh>>

\* ServeHTTP panics (in Convert, or in a write to w): the deferred
\* os.RemoveAll(tmpDir), registered at line 329 once the directory is
\* made, runs while the goroutine unwinds; no middleware recovers, so
\* nothing after next.ServeHTTP runs.
HPanic(t) ==
    /\ th[t].pc \in {"h_start", "h_mkdir", "h_write", "h_convert", "converting", "h_result"}
    /\ fs' = IF rq[t].tmpDir # 0 THEN RemoveAll(fs, rq[t].tmpDir) ELSE fs
    /\ rq' = [rq EXCEPT ![t].data = NoData, ![t].tmpDir = 0,
                        ![t].pdfPath = NoPath, ![t].convErr = <<>>]
    /\ th' = [th EXCEPT ![t].pc = "panicked"]
    /\ UNCHANGED <<reg, rd, gh>>

\* ------------------------------------------------- LibreOffice.Convert
\* Convert, lines 55-74: the context with the timeout exists already (pc
\* "c_start"); the command is built with its environment and
\* cmd.CombinedOutput() starts it. A context already done, or a binary that
\* cannot be executed, makes CombinedOutput return an error at once.
CvStart(t) ==
    /\ th[t].pc = "c_start"
    /\ LET c == rq[t].cv IN
       IF c.elapsed \/ ~c.script.start
       THEN /\ rq' = [rq EXCEPT ![t].cv.cerr =
                        IF c.elapsed THEN "context deadline exceeded"
                        ELSE "exec: no such file"]
            /\ th' = [th EXCEPT ![t].pc = "c_check"]
       ELSE /\ rq' = [rq EXCEPT ![t].cv.proc = "running",
                                ![t].cv.env = cmdEnv(c.outDir),
                                ![t].cv.pipe = TRUE]
            /\ th' = [th EXCEPT ![t].pc = "c_wait"]
    /\ UNCHANGED <<reg, rd, gh, fs>>

\* The subprocess writes its output.
ProcWrite(t) ==
    /\ rq[t].cv.proc = "running" /\ ~rq[t].cv.wrote
    /\ rq' = [rq EXCEPT ![t].cv.wrote = TRUE,
                        ![t].cv.files = Written(rq[t].cv.script.write, rq[t].cv.stem,
                                                rq[t].cv.outDir)]
    /\ UNCHANGED <<reg, th, rd, gh, fs>>

\* The subprocess exits on its own; its end of the output pipe closes
\* unless a child of it holds the pipe too.
ProcExit(t) ==
    /\ rq[t].cv.proc = "running" /\ rq[t].cv.wrote
    /\ rq[t].cv.script.exit # -1
    /\ rq' = [rq EXCEPT ![t].cv.proc = "exited", ![t].cv.code = rq[t].cv.script.exit,
                        ![t].cv.pipe = rq[t].cv.script.fork]
    /\ UNCHANGED <<reg, th, rd, gh, fs>>

\* The deadline of ctx passes. exec.CommandContext then kills a subprocess
\* that is still running (os.Process.Kill); one that has exited is left.
Deadline(t) ==
    /\ th[t].pc \in {"c_start", "c_wait", "c_check", "c_stat"}
    /\ ~rq[t].cv.elapsed
    /\ rq' = [rq EXCEPT ![t].cv.elapsed = TRUE,
                        ![t].cv.proc = IF @ = "running" THEN "killed" ELSE @,
                        ![t].cv.pipe = IF rq[t].cv.proc = "running"
                                       THEN rq[t].cv.script.fork ELSE @]
    /\ UNCHANGED <<reg, th, rd, gh, fs>>

\* A child the subprocess left behind exits and the pipe closes.
DescendantExit(t) ==
    /\ rq[t].cv.proc \in {"exited", "killed"} /\ rq[t].cv.pipe
    /\ rq' = [rq EXCEPT ![t].cv.pipe = FALSE]
    /\ UNCHANGED <<reg, th, rd, gh, fs>>

\* cmd.CombinedOutput() returns: the subprocess has ended and the output
\* pipe has been read to its end (cmd.WaitDelay is zero, so Wait reads
\* until every holder of the pipe has closed it).
CvWaitReturn(t) ==
    /\ th[t].pc = "c_wait"
    /\ rq[t].cv.proc \in {"exited", "killed"} /\ ~rq[t].cv.pipe
    /\ LET e == WaitError(rq[t].cv.proc, rq[t].cv.code) IN
          /\ rq' = [rq EXCEPT ![t].cv.cerr = e]
          /\ th' = [th EXCEPT ![t].pc = IF e = "" THEN "c_stat" ELSE "c_check"]
    /\ UNCHANGED <<reg, rd, gh, fs>>

\* Convert, lines 75-78, returns.
CvCheck(t) ==
    /\ th[t].pc = "c_check"
    /\ rq' = [rq EXCEPT ![t].cv.ret = ConvertError(rq[t].cv.elapsed, rq[t].cv.cerr)]
    /\ th' = [th EXCEPT ![t].pc = "c_done"]
    /\ UNCHANGED <<reg, rd, gh, fs>>

\* Convert, lines 82-91, returns.
CvStat(t) ==
    /\ th[t].pc = "c_stat"
    /\ rq' = [rq EXCEPT ![t].cv.ret =
                 ConvertResult(rq[t].cv.files, rq[t].cv.input, rq[t].cv.outDir)]
    /\ th' = [th EXCEPT ![t].pc = "c_done"]
    /\ UNCHANGED <<reg, rd, gh, fs>>

\* -------------------------------------------------------- specifications
\* The server of cmd/server: requests served concurrently.
Next ==
    \/ \E t \in Threads : Accept(t)
    \/ \E t \in Threads : MetricsEnter(t)
    \/ \E t \in Threads : HValidate(t)
    \/ \E t \in Threads : HMkdirTempFails(t)
    \/ \E t \in Threads : HMkdirTemp(t)
    \/ \E t \in Threads : HWriteFileFails(t)
    \/ \E t \in Threads : HWriteFile(t)
    \/ \E t \in Threads : HConvert(t)
    \/ \E t \in Threads : ConvertReturns(t)
    \/ \E t \in Threads : HRespond(t)
    \/ \E t \in Threads : HDefer(t)
    \/ \E t \in Threads : HPanic(t)
    \/ \E t \in Threads : MetricsDec(t)
    \/ \E t \in Threads : ObserveSum(t)
    \/ \E t \in Threads : ObserveTotal(t)
    \/ \E t \in Threads : ObserveBucket(t)
    \/ \E t \in Threads : MetricsOutcome(t)
    \/ \E t \in Threads : Health(t)
    \/ \E t \in Threads : ServeMetrics(t)
    \/ \E t \in Threads : LoggingEmit(t)

Spec == Init /\ [][Next]_vars

\* The server with one request for each route.
NextRoutes ==
    \/ \E t \in Threads : RouteAccept(t)
    \/ \E t \in Threads : MetricsEnter(t)
    \/ \E t \in Threads : HValidate(t)
    \/ \E t \in Threads : MetricsDec(t)
    \/ \E t \in Threads : ObserveSum(t)
    \/ \E t \in Threads : ObserveTotal(t)
    \/ \E t \in Threads : ObserveBucket(t)
    \/ \E t \in Threads : MetricsOutcome(t)
    \/ \E t \in Threads : Health(t)
    \/ \E t \in Threads : ServeMetrics(t)
    \/ \E t \in Threads : LoggingEmit(t)

SpecRoutes == Init /\ [][NextRoutes]_vars

\* The Metrics middleware around a test's handler.
NextMiddleware ==
    \/ \E t \in Threads : TestAccept(t)
    \/ \E t \in Threads : MetricsEnter(t)
    \/ \E t \in Threads : InnerSetOutcome(t)
    \/ \E t \in Threads : InnerReturn(t)
    \/ \E t \in Threads : InnerPanic(t)
    \/ \E t \in Threads : MetricsDec(t)
    \/ \E t \in Threads : ObserveSum(t)
    \/ \E t \in Threads : ObserveTotal(t)
    \/ \E t \in Threads : ObserveBucket(t)
    \/ \E t \in Threads : MetricsOutcome(t)

SpecMiddleware == Init /\ [][NextMiddleware]_vars

\* The Logging middleware around a test's handler.
NextLogging ==
    \/ \E t \in Threads : LogAccept(t)
    \/ \E t \in Threads : InnerSetLogError(t)
    \/ \E t \in Threads : InnerWriteHeader(t)
    \/ \E t \in Threads : InnerReturn(t)
    \/ \E t \in Threads : InnerPanic(t)
    \/ \E t \in Threads : LoggingEmit(t)

SpecLogging == Init /\ [][NextLogging]_vars

\* The whole chain around a test's handler.
NextPlans ==
    \/ \E t \in Threads : PlanAccept(t)
    \/ \E t \in Threads : MetricsEnter(t)
    \/ \E t \in Threads : PlanCall(t)
    \/ \E t \in Threads : PlanReturn(t)
    \/ \E t \in Threads : MetricsDec(t)
    \/ \E t \in Threads : ObserveSum(t)
    \/ \E t \in Threads : ObserveTotal(t)
    \/ \E t \in Threads : ObserveBucket(t)
    \/ \E t \in Threads : MetricsOutcome(t)
    \/ \E t \in Threads : LoggingEmit(t)

SpecPlans == Init /\ [][NextPlans]_vars

\* The context helpers called directly.
NextHelpers ==
    \/ \E t \in Threads : HelperStart(t)
    \/ \E t \in Threads : HelperSetOutcome(t)
    \/ \E t \in Threads : HelperSetLogError(t)
    \/ \E t \in Threads : HelperGetID(t)

SpecHelpers == Init /\ [][NextHelpers]_vars

\* The RequestID middleware around a test's handler.
NextRequestID ==
    \/ \E t \in Threads : RidAccept(t)
    \/ \E t \in Threads : RidInner(t)

SpecRequestID == Init /\ [][NextRequestID]_vars

\* The upload handler alone, on one request (the handler tests:
\* h.ServeHTTP(rr, req) with no middleware).
InitUpload ==
    /\ reg = New
    /\ rd = NoRender
    /\ gh = NoHistory
    /\ fs = NoDirs
    /\ \E req \in UploadRequests :
          rq = [t \in Threads |->
                  IF t = 1 THEN [NoRequest EXCEPT !.handler = "convert", !.req = req]
                  ELSE NoRequest]
    /\ th = [t \in Threads |->
               IF t = 1 THEN [IdleThread EXCEPT !.pc = "h_start"] ELSE IdleThread]

NextUpload ==
    \/ \E t \in Threads : HValidate(t)
    \/ \E t \in Threads : HMkdirTempFails(t)
    \/ \E t \in Threads : HMkdirTemp(t)
    \/ \E t \in Threads : HWriteFileFails(t)
    \/ \E t \in Threads : HWriteFile(t)
    \/ \E t \in Threads : HConvert(t)
    \/ \E t \in Threads : ConvertReturns(t)
    \/ \E t \in Threads : HRespond(t)
    \/ \E t \in Threads : HDefer(t)
    \/ \E t \in Threads : HPanic(t)

SpecUpload == InitUpload /\ [][NextUpload]_vars

\* TestConvert_ConcurrentRequestsAllSucceed: the upload handler serving one
\* request per goroutine, all at once.
ConcurrentRequests ==
    {Upload("POST", TRUE, "file", 1024, Magic, 200),
     Upload("POST", TRUE, "file", 1024, <<72, 101, 108, 108>>, 200)}

InitConcurrent ==
    /\ reg = New
    /\ rd = NoRender
    /\ gh = NoHistory
    /\ fs = NoDirs
    /\ rq \in [Threads -> {[NoRequest EXCEPT !.handler = "convert", !.req = req] :
                              req \in ConcurrentRequests}]
    /\ th = [t \in Threads |-> [IdleThread EXCEPT !.pc = "h_start"]]

SpecConcurrent == InitConcurrent /\ [][NextUpload]_vars

\* The converter tests: one call of Convert, on a fake binary.
NewCall(t, in, script) ==
    [NoCall EXCEPT !.input = in.path, !.stem = in.stem, !.outDir = OutDirOf(t),
                   !.script = script, !.wrote = (script.write = "none")]

InitConvert ==
    /\ reg = New
    /\ rd = NoRender
    /\ gh = NoHistory
    /\ fs = NoDirs
    /\ \E in \in Inputs, script \in Scripts :
          rq = [t \in Threads |->
                  IF t = 1 THEN [NoRequest EXCEPT !.cv = NewCall(t, in, script)]
                  ELSE NoRequest]
    /\ th = [t \in Threads |->
               IF t = 1 THEN [IdleThread EXCEPT !.pc = "c_start"] ELSE IdleThread]

NextConvert ==
    \/ \E t \in Threads : CvStart(t)
    \/ \E t \in Threads : ProcWrite(t)
    \/ \E t \in Threads : ProcExit(t)
    \/ \E t \in Threads : Deadline(t)
    \/ \E t \in Threads : DescendantExit(t)
    \/ \E t \in Threads : CvWaitReturn(t)
    \/ \E t \in Threads : CvCheck(t)
    \/ \E t \in Threads : CvStat(t)

SpecConvert == InitConvert /\ [][NextConvert]_vars

\* The same with what the Go runtime guarantees: Convert's own steps are
\* taken and the timer of the context fires. Nothing makes the subprocess,
\* or a child it left, exit.
FairSpecConvert ==
    /\ SpecConvert
    /\ \A t \in Threads :
          /\ WF_vars(CvStart(t)) /\ WF_vars(CvWaitReturn(t))
          /\ WF_vars(CvCheck(t)) /\ WF_vars(CvStat(t))
          /\ WF_vars(Deadline(t))

\* TestLibreOffice_ProfileIsolation: concurrent calls, each with its own
\* outDir, on a fake binary that writes input.pdf.
ProfileScripts ==
    {[start |-> TRUE, write |-> "pdf", exit |-> 0, fork |-> FALSE],
     [start |-> TRUE, write |-> "pdf", exit |-> 0, fork |-> TRUE],
     [start |-> TRUE, write |-> "pdf", exit |-> -1, fork |-> FALSE]}

InitProfiles ==
    /\ reg = New
    /\ rd = NoRender
    /\ gh = NoHistory
    /\ fs = NoDirs
    /\ \E script \in ProfileScripts :
          rq = [t \in Threads |->
                  [NoRequest EXCEPT
                     !.cv = NewCall(t, [path |-> "/in/input.docx", stem |-> "input"], script)]]
    /\ th = [t \in Threads |-> [IdleThread EXCEPT !.pc = "c_start"]]

SpecProfiles == InitProfiles /\ [][NextConvert]_vars

\* Goroutines calling ObserveDuration, any number of times each.
NextObserve ==
    \/ \E t \in Threads : CallObserve(t)
    \/ \E t \in Threads : ObserveSum(t)
    \/ \E t \in Threads : ObserveTotal(t)
    \/ \E t \in Threads : ObserveBucket(t)

SpecObserve == Init /\ [][NextObserve]_vars

\* One render of /metrics, begun at any moment.
ScrapeStart == rd.pc = 0 /\ RenderStart

\* Goroutines calling ObserveDuration once each, beside a render of /metrics.
NextScrape ==
    \/ \E t \in Threads : ScrapeObserve(t)
    \/ \E t \in Threads : ObserveSum(t)
    \/ \E t \in Threads : ObserveTotal(t)
    \/ \E t \in Threads : ObserveBucket(t)
    \/ ScrapeStart
    \/ RenderStep

SpecScrape == Init /\ [][NextScrape]_vars

\* TestHistogramBucketPlacement: renders of /metrics between the calls.
NextPlacement ==
    \/ \E t \in Threads : PlacementObserve(t)
    \/ \E t \in Threads : ObserveSum(t)
    \/ \E t \in Threads : ObserveTotal(t)
    \/ \E t \in Threads : ObserveBucket(t)
    \/ PlacementRender
    \/ RenderStep

SpecPlacement == Init /\ [][NextPlacement]_vars

\* TestConcurrentRace.
NextRace ==
    \/ \E t \in Threads : RaceIncInFlight(t)
    \/ \E t \in Threads : ObserveSum(t)
    \/ \E t \in Threads : ObserveTotal(t)
    \/ \E t \in Threads : ObserveBucket(t)
    \/ \E t \in Threads : RaceIncSuccess(t)
    \/ \E t \in Threads : RaceDecInFlight(t)

SpecRace == Init /\ [][NextRace]_vars

\* ----------------------------------------------------------------- claims
RECURSIVE SumOver(_, _)
\* The sum of f[x] * w(x) is spelled out where it is used; this is the sum of f over S.
SumOver(S, f) ==
    IF S = {} THEN 0
    ELSE LET x == CHOOSE y \in S : TRUE IN f[x] + SumOver(S \ {x}, f)

\* No ObserveDuration call is in progress.
Quiescent == \A t \in Threads : ~InObserve(t)

\* Completed ObserveDuration calls: all of them, and those with ms <= le.
NumObserved == SumOver(AllMs, gh.obs)
NumObservedLE(le) == SumOver({m \in AllMs : m <= le}, gh.obs)
SumObserved == SumOver(AllMs, [m \in AllMs |-> m * gh.obs[m]])

\* C1: once every ObserveDuration call made on a fresh registry has
\* returned, the bucket counter of each threshold equals the number of calls
\* with ms <= that threshold (so ms = 0 counts in every bucket, ms on a
\* threshold counts in that bucket, ms > 30000 counts in none).
C1_BucketCounts ==
    Quiescent =>
        \A i \in BucketIdx : reg.counts[i] = NumObservedLE(histBuckets[i])

C1_Witness ==
    /\ Quiescent
    /\ gh.obs[0] = 1 /\ gh.obs[100] = 1 /\ gh.obs[30001] = 1
    /\ reg.counts[1] = 2 /\ reg.counts[NumBuckets] = 2

\* C2: a render made after ObserveDuration calls that have all returned
\* shows the number of calls made on the +Inf bucket line and on the _count
\* line, and the sum of their ms arguments on the _sum line.
C2_RenderedTotals ==
    rd.pc = 15 =>
        /\ rd.out.inf = gh.calls
        /\ rd.out.count = gh.calls
        /\ rd.out.sum = SumObserved
        /\ NumObserved = gh.calls

C2_Witness ==
    /\ rd.pc = 15
    /\ gh.calls = 3 /\ rd.out.inf = 3 /\ rd.out.sum = 30102
    /\ rd.out.bucket[1] = 1 /\ rd.out.bucket[2] = 2

\* C3: in every reachable state, calls in progress included, the stored
\* count of a larger threshold is at least that of a smaller one.
C3_StoredMonotone ==
    \A a, b \in BucketIdx : a < b => reg.counts[b] >= reg.counts[a]

\* C4: when the N goroutines of TestConcurrentRace have all finished, the
\* success counter is N, the histogram total is N and the gauge is 0.
RaceDone == \A t \in Threads : th[t].pc = "done"

C4_NoLostUpdate ==
    RaceDone =>
        /\ reg.convSuccess = NumThreads
        /\ reg.total = NumThreads
        /\ reg.convInFlight = 0
        /\ reg.convTimeout = 0 /\ reg.convFailed = 0

C4_Witness == RaceDone /\ reg.convSuccess = NumThreads /\ NumObserved = NumThreads

\* C5 (as claimed): the gauge equals the number of requests that have
\* entered the Metrics middleware and whose inner handler has not returned.
InHandler ==
    {"inner", "h_start", "h_mkdir", "h_write", "h_convert", "converting",
     "h_result", "h_defer"}

C5_GaugeIsRunningHandlers ==
    reg.convInFlight = Cardinality({t \in Threads : th[t].pc \in InHandler})

\* C5 (amended): the gauge equals the number of requests for which Metrics
\* has done IncInFlight and not yet DecInFlight, that is the requests inside
\* the inner handler, those whose handler has returned (or panicked) with
\* the decrement still to come; so it is 1 while exactly one request is
\* blocked inside the handler and 0 when every request has finished.
BetweenIncAndDec == InHandler \cup {"returned", "panicked"}

C5_GaugeIsIncNotDec ==
    /\ reg.convInFlight = Cardinality({t \in Threads : th[t].pc \in BetweenIncAndDec})
    /\ (\A t \in Threads : th[t].pc \in {"idle", "metrics", "done"}) => reg.convInFlight = 0

C5_Witness ==
    \E t \in Threads :
        /\ th[t].pc = "inner" /\ reg.convInFlight = 1
        /\ \A u \in Threads \ {t} : th[u].pc = "done"

\* C6: each request whose inner handler returned and for which Metrics has
\* finished has added exactly 1 to exactly one outcome counter: success for
\* the flag "success", timeout for "timeout", failed for a flag never set,
\* a context without request state, or any other value.
Counted == {t \in Threads : th[t].pc \in {"log", "done"} /\ HasLayer(t, "Metrics")}
Flag(t) == IF rq[t].st.present THEN rq[t].st.outcome ELSE "(no state)"

C6_OneCounterPerRequest ==
    /\ reg.convSuccess = Cardinality({t \in Counted : Flag(t) = "success"})
    /\ reg.convTimeout = Cardinality({t \in Counted : Flag(t) = "timeout"})
    /\ reg.convFailed = Cardinality({t \in Counted : Flag(t) \notin {"success", "timeout"}})

C6_Witness ==
    \E t, u \in Threads :
        /\ t \in Counted /\ u \in Counted
        /\ Flag(t) = "timeout" /\ Flag(u) = "(no state)"
        /\ reg.convTimeout = 1 /\ reg.convFailed = 1 /\ reg.convSuccess = 0

\* C7: for every /convert request served through RequestID, Logging,
\* Metrics and the upload handler, the counter incremented is the one of the
\* response: success for 200, timeout for 504, failed otherwise.
Status(t) == rq[t].resp.status

C7_CounterMatchesStatus ==
    /\ reg.convSuccess = Cardinality({t \in Counted : Status(t) = 200})
    /\ reg.convTimeout = Cardinality({t \in Counted : Status(t) = 504})
    /\ reg.convFailed = Cardinality({t \in Counted : Status(t) \notin {200, 504}})

\* C8: a POST upload with a file field of at most 10 MiB that begins with
\* the signature, for which Convert returned the path of a readable,
\* non-empty artifact, is answered 200, application/pdf, with the artifact's
\* length as Content-Length and the artifact's bytes as body.
Answered(t) == th[t].pc \in {"h_defer", "done"} /\ rq[t].handler = "convert"
IsUpload(t) ==
    rq[t].req.method = "POST" /\ rq[t].req.multipart /\ rq[t].req.field = "file"
BeginsWithSignature(t) ==
    rq[t].req.size >= 4 /\ rq[t].req.head = <<80, 75, 3, 4>>
GoodArtifact(t) ==
    /\ rq[t].nconv = 1 /\ rq[t].conv.err = <<>>
    /\ rq[t].conv.written /\ rq[t].conv.name = "input.pdf" /\ rq[t].conv.pdf # <<>>

C8_SuccessResponse ==
    \A t \in Threads :
        (Answered(t) /\ IsUpload(t) /\ rq[t].req.size <= maxFileSize
                     /\ BeginsWithSignature(t) /\ GoodArtifact(t)) =>
            /\ rq[t].resp.status = 200
            /\ rq[t].resp.ctype = "application/pdf"
            /\ rq[t].resp.clen = Itoa(Len(rq[t].conv.pdf))
            /\ rq[t].resp.body = [kind |-> "pdf", error |-> "", bytes |-> rq[t].conv.pdf]

C8_Witness ==
    \E t \in Threads :
        /\ th[t].pc = "done" /\ GoodArtifact(t)
        /\ rq[t].req.size = maxFileSize
        /\ rq[t].resp.status = 200 /\ rq[t].resp.clen = <<8>>

\* C9: a POST upload whose file content is 10 MiB + 1 byte or larger is
\* answered 413 whatever its content, be it the body cap or the read of
\* maxFileSize + 1 bytes that finds it.
C9_TooLargeIs413 ==
    \A t \in Threads :
        (Answered(t) /\ IsUpload(t) /\ rq[t].req.size >= maxFileSize + 1) =>
            rq[t].resp.status = 413 /\ rq[t].nconv = 0

C9_Witness ==
    \E t \in Threads :
        /\ th[t].pc = "done" /\ IsUpload(t)
        /\ rq[t].req.size = maxFileSize + 1 /\ rq[t].req.bodyLen <= maxBodySize
        /\ BeginsWithSignature(t)
        /\ rq[t].resp.status = 413

\* C10 (as claimed): an upload whose file content does not begin with
\* 50 4B 03 04 is always answered 415 and the Converter is not invoked.
C10_WrongTypeAlways415 ==
    \A t \in Threads :
        (Answered(t) /\ IsUpload(t) /\ ~BeginsWithSignature(t)) =>
            rq[t].resp.status = 415 /\ rq[t].nconv = 0

\* C10 (amended): an upload that is not too large (its body within the
\* body cap, its file content at most 10 MiB) and whose file content does
\* not begin with 50 4B 03 04, content shorter than four bytes included, is
\* answered 415; too large, it is answered 413; the Converter is invoked in
\* neither case.
C10_WrongType415UnlessTooLarge ==
    \A t \in Threads :
        (Answered(t) /\ IsUpload(t) /\ ~BeginsWithSignature(t)) =>
            /\ rq[t].nconv = 0
            /\ rq[t].resp.status =
                  IF rq[t].req.bodyLen <= maxBodySize /\ rq[t].req.size <= maxFileSize
                  THEN 415 ELSE 413

C10_Witness ==
    \E t \in Threads :
        /\ th[t].pc = "done" /\ IsUpload(t)
        /\ rq[t].req.size = 3 /\ rq[t].req.head = <<80, 75, 3>>
        /\ rq[t].resp.status = 415 /\ rq[t].nconv = 0

\* C11: the handler's checks apply in a fixed order and the first that
\* applies decides the status: a method other than POST 405, a multipart
\* parse failure 413, a missing file field 400, content over 10 MiB 413, a
\* wrong signature 415; a request that passes them all gets none of these
\* from the checks, and one status is written per request.
EarliestCheck(t) ==
    IF rq[t].req.method # "POST" THEN 405
    ELSE IF ~rq[t].req.multipart \/ rq[t].req.bodyLen > maxBodySize THEN 413
    ELSE IF rq[t].req.field # "file" THEN 400
    ELSE IF rq[t].req.size > maxFileSize THEN 413
    ELSE IF ~BeginsWithSignature(t) THEN 415
    ELSE 0

C11_FirstCheckDecides ==
    \A t \in Threads :
        /\ rq[t].nresp <= 1
        /\ Answered(t) =>
              /\ rq[t].nresp = 1
              /\ IF EarliestCheck(t) # 0
                 THEN rq[t].resp.status = EarliestCheck(t) /\ rq[t].nconv = 0
                 ELSE rq[t].resp.status \in {200, 500, 504}

C11_Witness ==
    \E t \in Threads :
        /\ th[t].pc = "done" /\ IsUpload(t) /\ rq[t].nresp = 1
        /\ rq[t].req.bodyLen <= maxBodySize
        /\ rq[t].req.size > maxFileSize /\ ~BeginsWithSignature(t)
        /\ rq[t].resp.status = 413

\* C12: when Convert returned an error the response is 504 if the error is
\* or wraps ErrTimeout, and 500 for every other error.
ConvFailed(t) == rq[t].nconv = 1 /\ rq[t].conv.err # <<>>
WrapsTimeout(t) == "ErrTimeout" \in {rq[t].conv.err[k] : k \in 1..Len(rq[t].conv.err)}

C12_TimeoutIs504 ==
    \A t \in Threads :
        (Answered(t) /\ ConvFailed(t)) =>
            rq[t].resp.status = IF WrapsTimeout(t) THEN 504 ELSE 500

C12_Witness ==
    \E t \in Threads :
        /\ th[t].pc = "done" /\ ConvFailed(t)
        /\ rq[t].conv.err = <<"wrapped", "ErrTimeout">>
        /\ rq[t].resp.status = 504

\* C13: a temporary directory exists only while the request that created it
\* is still inside its handler: once the handler has returned, or has
\* panicked, the directory and all under it are gone, whatever the path it
\* left by (input write failure, Convert's timeout or failure, an
\* unreadable or empty artifact, success).
Staged == {"h_write", "h_convert", "converting", "h_result", "h_defer"}

C13_NoDirAfterReturn ==
    /\ DOMAIN fs = {rq[t].tmpDir : t \in {u \in Threads : th[u].pc \in Staged}}
    /\ \A t \in Threads : th[t].pc \notin Staged => rq[t].tmpDir = 0

C13_Witness ==
    \E t, u \in Threads :
        /\ th[t].pc = "panicked" /\ rq[t].nconv = 1
        /\ th[u].pc = "done" /\ rq[u].resp.status = 504
        /\ DOMAIN fs = {}

\* C14 (as claimed): every response that is not 2xx has the body
\* {"error": message} with one of the handler's static messages, and no
\* response body, that of a 200 included, has the temporary directory's
\* path, the prefix "docpdf-" or text of Convert's error in it.
StaticMessages ==
    {"method not allowed", "file too large", "missing file field",
     "could not read file", "unsupported file type", "internal error",
     "conversion timed out", "conversion failed", "conversion produced no output"}

Contains(bytes, pat) ==
    \E k \in 0..(Len(bytes) - Len(pat)) : SubSeq(bytes, k + 1, k + Len(pat)) = pat

StaticErrorBody(t) ==
    /\ rq[t].resp.body.kind = "json"
    /\ rq[t].resp.body.error \in StaticMessages
    /\ rq[t].resp.body.bytes = <<>>
    /\ rq[t].resp.ctype = "application/json"

C15_RequestIDEchoedOrGenerated ==
    \A t \in Threads :
        th[t].pc \in {"rid_inner", "done"} =>
            /\ rq[t].st.present
            /\ rq[t].hdrId = rq[t].st.id
            /\ IF rq[t].req.xid # ""
               THEN rq[t].hdrId = rq[t].req.xid
               ELSE Len(rq[t].hdrId) = 36
            /\ th[t].pc = "done" => rq[t].captured = rq[t].hdrId

C15_Witness ==
    \E t, u \in Threads :
        /\ th[t].pc = "done" /\ rq[t].req.xid = ""
        /\ rq[t].captured = "ffffffff-ffff-4fff-bfff-ffffffffffff"
        /\ th[u].pc = "done" /\ rq[u].req.xid = "my-existing-id"
        /\ rq[u].captured = "my-existing-id"

\* C16: if the subprocess is still running when the timeout elapses, it is
\* terminated and Convert returns, with exactly ErrTimeout and no path.
Returned(t) == th[t].pc = "c_done"

C16_TimeoutReturns ==
    \A t \in Threads :
        (rq[t].cv.proc = "killed") ~>
            (Returned(t) /\ rq[t].cv.ret = [path |-> "", err |-> <<"ErrTimeout">>])

\* C17: if the subprocess exited with status zero and the artifact (the
\* input's base name with .pdf for its extension, directly in outDir) is
\* missing or empty, Convert returns exactly ErrNoOutput and no path.
ExitedZero(t) == rq[t].cv.proc = "exited" /\ rq[t].cv.code = 0
ArtifactPath(t) == OutDirOf(t) \o "/" \o rq[t].cv.stem \o ".pdf"
ArtifactThere(t) ==
    \E f \in rq[t].cv.files : f.path = ArtifactPath(t) /\ f.size > 0

C17_NoOutput ==
    \A t \in Threads :
        (Returned(t) /\ ExitedZero(t) /\ ~ArtifactThere(t)) =>
            rq[t].cv.ret = [path |-> "", err |-> <<"ErrNoOutput">>]

C17_Witness ==
    \E t \in Threads :
        /\ Returned(t) /\ ExitedZero(t)
        /\ rq[t].cv.files = {[path |-> "/tmp/t1/report.v2.pdf", size |-> 0]}
        /\ rq[t].cv.ret.err = <<"ErrNoOutput">>

\* C18: if the subprocess could not be run, or exited with a status other
\* than zero, and the timeout has not elapsed, Convert returns no path and
\* an error that wraps ErrConversionFailed and not ErrTimeout.
Wraps(err, target) == target \in {err[k] : k \in 1..Len(err)}

C18_ConversionFailed ==
    \A t \in Threads :
        (/\ Returned(t) /\ ~rq[t].cv.elapsed
         /\ \/ rq[t].cv.proc = "none"
            \/ rq[t].cv.proc = "exited" /\ rq[t].cv.code # 0) =>
            /\ rq[t].cv.ret.path = ""
            /\ Wraps(rq[t].cv.ret.err, "ErrConversionFailed")
            /\ ~Wraps(rq[t].cv.ret.err, "ErrTimeout")

C18_Witness ==
    \E t \in Threads :
        /\ Returned(t) /\ ~rq[t].cv.elapsed
        /\ rq[t].cv.proc = "exited" /\ rq[t].cv.code = 1
        /\ rq[t].cv.files # {}
        /\ rq[t].cv.ret.err = <<"ErrConversionFailed", "exit status 1">>

\* C19: Convert returns a nil error only when the subprocess exited with
\* status zero, not killed by the timeout, and a non-empty artifact is at
\* outDir/<input base name without extension>.pdf; the path returned is
\* then that artifact's. In every other case the path is empty and the
\* error is one of ErrTimeout, ErrNoOutput or a wrapped ErrConversionFailed.
C19_NilOnlyWithArtifact ==
    \A t \in Threads :
        Returned(t) =>
            IF rq[t].cv.ret.err = <<>>
            THEN /\ ExitedZero(t) /\ ArtifactThere(t)
                 /\ rq[t].cv.ret.path = ArtifactPath(t)
            ELSE /\ rq[t].cv.ret.path = ""
                 /\ ~(ExitedZero(t) /\ ArtifactThere(t))
                 /\ \/ rq[t].cv.ret.err \in {<<"ErrTimeout">>, <<"ErrNoOutput">>}
                    \/ /\ Len(rq[t].cv.ret.err) = 2
                       /\ rq[t].cv.ret.err[1] = "ErrConversionFailed"

C19_Witness ==
    \E t \in Threads :
        /\ Returned(t) /\ rq[t].cv.ret = [path |-> "/tmp/t1/report.v2.pdf", err |-> <<>>]
        /\ rq[t].cv.elapsed

\* C20: every subprocess runs with HOME set to its call's outDir and the
\* profile location inside that outDir, so calls with distinct outDirs
\* share neither; and a call never waits for another: whatever the other
\* calls are doing, a call that is about to start its subprocess can.
Started(t) == rq[t].cv.proc # "none"
ProfilePrefix(t) == "file://" \o OutDirOf(t) \o "/"

C20_ProfileIsolation ==
    /\ \A t \in Threads :
          Started(t) =>
              /\ rq[t].cv.env.home = OutDirOf(t)
              /\ Len(rq[t].cv.env.profile) > Len(ProfilePrefix(t))
              /\ SubSeq(rq[t].cv.env.profile, 1, Len(ProfilePrefix(t))) = ProfilePrefix(t)
    /\ \A t, u \in Threads :
          (t # u /\ Started(t) /\ Started(u)) =>
              /\ rq[t].cv.env.home # rq[u].cv.env.home
              /\ rq[t].cv.env.profile # rq[u].cv.env.profile
    /\ \A t \in Threads : th[t].pc = "c_start" => ENABLED CvStart(t)

C20_Witness ==
    \E t, u \in Threads :
        /\ t # u
        /\ rq[t].cv.proc = "running" /\ rq[u].cv.proc = "running"
        /\ rq[t].cv.env.home = "/tmp/t1" /\ rq[u].cv.env.home = "/tmp/t2"

C22_NoStateNoOp ==
    /\ \A t \in Threads :
          ~rq[t].st.present =>
              /\ rq[t].st = [present |-> FALSE, id |-> "", logError |-> "", outcome |-> ""]
              /\ th[t].pc = "done" => rq[t].captured = ""
              /\ th[t].pc = "k_outcome" => ENABLED HelperSetOutcome(t)
              /\ th[t].pc = "k_logerr" => ENABLED HelperSetLogError(t)
              /\ th[t].pc = "k_getid" => ENABLED HelperGetID(t)
    /\ reg = New /\ fs = NoDirs

C22_Witness ==
    \E t, u \in Threads :
        /\ th[t].pc = "done" /\ ~rq[t].st.present /\ rq[t].captured = ""
        /\ th[u].pc = "done" /\ rq[u].st.present
        /\ rq[u].st.outcome = "success" /\ rq[u].st.logError = "something"
        /\ rq[u].captured = GeneratedID

\* C23: /health and /metrics never pass through the Metrics middleware:
\* while no /convert request has been accepted, whatever /health and
\* /metrics requests have been served or are being served, the three outcome
\* counters, the gauge and the histogram are as in a new registry; and each
\* of these requests has its ID from RequestID, outermost (the state and the
\* response header are there before anything else runs), and, once
\* finished, its one log line with that ID.
OffMetrics(t) == th[t].pc # "idle" /\ rq[t].req.path \in {"/health", "/metrics"}

C23_HealthAndMetricsUnmeasured ==
    /\ (\A t \in Threads : th[t].pc = "idle" \/ OffMetrics(t)) => reg = New
    /\ \A t \in Threads :
          OffMetrics(t) =>
              /\ th[t].pc \notin {"metrics", "returned", "obs_sum", "obs_total",
                                  "obs_bucket", "outcome"}
              /\ rq[t].st.present /\ rq[t].st.id # "" /\ rq[t].hdrId = rq[t].st.id
              /\ th[t].pc = "done" =>
                    /\ Len(rq[t].log) = 1
                    /\ rq[t].log[1].request_id = rq[t].st.id
                    /\ rq[t].log[1].path = rq[t].req.path
                    /\ rq[t].log[1].status = 200

C23_Witness ==
    \E t, u \in Threads :
        /\ th[t].pc = "done" /\ rq[t].req.path = "/health"
        /\ th[u].pc = "done" /\ rq[u].req.path = "/metrics"
        /\ rq[t].resp.status = 200 /\ rq[u].resp.status = 200
        /\ Len(rq[t].log) = 1 /\ Len(rq[u].log) = 1
        /\ reg = New

\* C24: the gauge is decremented once for every request that entered
\* Metrics when its inner handler exits, by returning or by panicking: the
\* gauge counts the requests whose inner handler is running or has returned
\* with the decrement as the next step, and no request whose handler
\* panicked.
C24_DecrementOnEveryExit ==
    reg.convInFlight =
        Cardinality({t \in Threads : th[t].pc \in InHandler \cup {"returned"}})

\* C25: a request through Logging has no log line before its next layer
\* has returned (not while the inner handler runs, not at its return), and
\* exactly one once Logging has finished; that line has an error field if
\* and only if the request's state holds a non-empty reason put there by
\* SetLogError, and the field is that reason.
ThroughLogging(t) == th[t].pc # "idle" /\ HasLayer(t, "Logging")
ErrorReason(t) == IF rq[t].st.present THEN rq[t].st.logError ELSE ""

C25_OneLineAfterReturn ==
    \A t \in Threads :
        ThroughLogging(t) =>
            /\ Len(rq[t].log) <= 1
            /\ th[t].pc \in {"inner", "log"} => Len(rq[t].log) = 0
            /\ th[t].pc = "done" =>
                  /\ Len(rq[t].log) = 1
                  /\ (rq[t].log[1].error # <<>>) <=> (ErrorReason(t) # "")
                  /\ ErrorReason(t) # "" => rq[t].log[1].error = <<ErrorReason(t)>>

C25_Witness ==
    \E t, u \in Threads :
        /\ th[t].pc = "done" /\ ThroughLogging(t)
        /\ rq[t].st.logError = "test error" /\ rq[t].rec = 400
        /\ Len(rq[t].log) = 1 /\ rq[t].log[1].error = <<"test error">>
        /\ th[u].pc = "done" /\ ThroughLogging(u) /\ rq[u].st.present
        /\ Len(rq[u].log) = 1 /\ rq[u].log[1].error = <<>>

\* C26: the status of a request's log line is the first status code its
\* inner handler wrote through the recorder (the one the writer below kept
\* and the client gets); WriteHeader calls after the first do not change it.
C26_LogStatusIsFirstWritten ==
    \A t \in Threads :
        (ThroughLogging(t) /\ th[t].pc = "done" /\ rq[t].nresp >= 1) =>
            rq[t].log[1].status = rq[t].resp.status

\* C27: a /convert request whose conversion failed with an execution error
\* (Convert returned an error wrapping ErrConversionFailed or ErrNoOutput)
\* has that cause in the logError of its state, so its log line has an
\* error field, while the response is 500 with the static message only.
ExecutionError(t) ==
    \E k \in 1..Len(rq[t].conv.err) :
        rq[t].conv.err[k] \in {"ErrConversionFailed", "ErrNoOutput"}

C27_CauseInLogLine ==
    \A t \in Threads :
        (th[t].pc = "done" /\ rq[t].handler = "convert" /\ ExecutionError(t)) =>
            /\ rq[t].st.logError # ""
            /\ Len(rq[t].log) = 1 /\ rq[t].log[1].error # <<>>
            /\ rq[t].resp.status = 500
            /\ rq[t].resp.body.error = "conversion failed"

\* C28: the gauge and the outcome counters are not updated in one step: a
\* request that is past DecInFlight and not yet past its counter increment
\* is counted neither by the gauge nor by any outcome counter (so gauge
\* plus counters is the number of requests that entered Metrics less those
\* in that window), and a /metrics scrape running meanwhile is never held
\* up: its next load can be taken in every such state and reads what the
\* registry holds then.
EnteredMetrics(t) == HasLayer(t, "Metrics") /\ th[t].pc \notin {"idle", "metrics"}
DecNotCounted(t) ==
    /\ HasLayer(t, "Metrics")
    /\ th[t].pc \in {"obs_sum", "obs_total", "obs_bucket", "outcome"}

C28_DecThenCountSeparately ==
    /\ reg.convInFlight + reg.convSuccess + reg.convTimeout + reg.convFailed =
          Cardinality({t \in Threads : EnteredMetrics(t)})
            - Cardinality({t \in Threads : DecNotCounted(t)})
    /\ \A u \in Threads : th[u].pc = "scrape" => ENABLED ServeMetrics(u)

C28_Witness ==
    \E t, u \in Threads :
        /\ DecNotCounted(t) /\ rq[t].req.path = "/convert"
        /\ reg.convInFlight = 0
        /\ reg.convSuccess = 0 /\ reg.convTimeout = 0 /\ reg.convFailed = 0
        /\ th[u].pc = "scrape" /\ th[u].i = 4
        /\ reg.total = 1 /\ rq[u].out.inflight = 0
        /\ rq[u].out.success = 0 /\ rq[u].out.timeout = 0 /\ rq[u].out.failed = 0

\* C29: the Converter is called at most once for a request: whatever error
\* it returns (timeout, failure, no output) the handler does not call it
\* again; its next step is the error response, the only response of the
\* request, and a request answered after an error made exactly one call.
ConvError(t) == rq[t].nconv >= 1 /\ rq[t].conv.err # <<>>

C29_SingleAttempt ==
    \A t \in Threads :
        /\ rq[t].nconv <= 1
        /\ (ConvError(t) /\ th[t].pc = "h_result") =>
              /\ ENABLED HRespond(t)
              /\ ~ENABLED HConvert(t)
              /\ rq[t].nresp = 0
        /\ (ConvError(t) /\ Answered(t)) =>
              /\ rq[t].nconv = 1 /\ rq[t].nresp = 1
              /\ rq[t].resp.status \in {500, 504}
              /\ rq[t].resp.body.kind = "json"

C29_Witness ==
    \E t, u \in Threads :
        /\ th[t].pc = "done" /\ rq[t].nconv = 1
        /\ rq[t].conv.err = <<"ErrConversionFailed", "exit status 1">>
        /\ rq[t].resp.status = 500
        /\ th[u].pc = "done" /\ rq[u].nconv = 1
        /\ rq[u].conv.err = <<"ErrTimeout">> /\ rq[u].resp.status = 504

\* C30: when Convert returned a path and no error but the file at the path
\* cannot be read (it is not there) or is empty, the handler answers 500
\* with a JSON error body, its only response: at no step of the request is
\* a 200 or a PDF body written.
BadArtifact(t) ==
    /\ rq[t].nconv = 1 /\ rq[t].handler = "convert"
    /\ th[t].pc \in {"h_result", "h_defer", "done"}
    /\ rq[t].conv.err = <<>>
    /\ ~rq[t].conv.written \/ Len(rq[t].conv.pdf) = 0

C30_BadArtifactIs500 ==
    \A t \in Threads :
        BadArtifact(t) =>
            /\ rq[t].resp.status # 200 /\ rq[t].resp.body.kind # "pdf"
            /\ rq[t].resp.ctype # "application/pdf"
            /\ th[t].pc = "h_result" => rq[t].nresp = 0 /\ ENABLED HRespond(t)
            /\ Answered(t) =>
                  /\ rq[t].nresp = 1
                  /\ rq[t].resp.status = 500
                  /\ rq[t].resp.ctype = "application/json"
                  /\ rq[t].resp.body.kind = "json" /\ rq[t].resp.body.error # ""

C30_Witness ==
    \E t, u \in Threads :
        /\ th[t].pc = "done" /\ BadArtifact(t)
        /\ rq[t].conv.written /\ rq[t].conv.pdf = <<>>
        /\ rq[t].resp = writeError(500, "conversion produced no output")
        /\ th[u].pc = "done" /\ BadArtifact(u) /\ ~rq[u].conv.written
        /\ rq[u].resp.status = 500

\* C31: when a request's handler calls SetOutcome several times, the
\* counter Metrics increments for the request is the one of the value of
\* the last call (failed when that value is empty or unknown, or when there
\* was no call); and no call of SetOutcome or SetLogError changes the
\* request's id.
RECURSIVE LastValue(_, _, _)
\* The value of the last of the first n calls that is a call of fn, "" if none.
LastValue(calls, fn, n) ==
    IF n = 0 THEN ""
    ELSE IF calls[n].fn = fn THEN calls[n].v ELSE LastValue(calls, fn, n - 1)

LastOutcome(t) == LastValue(rq[t].plan.calls, "outcome", Len(rq[t].plan.calls))
OwnID(t) == IF rq[t].plan.xid = "" THEN GeneratedID ELSE rq[t].plan.xid
Planned(t) == th[t].pc # "idle" /\ rq[t].handler = "planned"

C31_LastOutcomeCounts ==
    /\ reg.convSuccess = Cardinality({t \in Counted : LastOutcome(t) = "success"})
    /\ reg.convTimeout = Cardinality({t \in Counted : LastOutcome(t) = "timeout"})
    /\ reg.convFailed =
          Cardinality({t \in Counted : LastOutcome(t) \notin {"success", "timeout"}})
    /\ \A t \in Threads : Planned(t) => rq[t].st.id = OwnID(t)

C31_Witness ==
    \E t, u \in Threads :
        /\ t \in Counted /\ u \in Counted
        /\ rq[t].plan.xid = "abc-123" /\ rq[t].st.id = "abc-123"
        /\ rq[u].plan.xid = "my-existing-id" /\ rq[u].st.id = "my-existing-id"
        /\ reg.convTimeout = 1 /\ reg.convSuccess = 1 /\ reg.convFailed = 0

\* C32: each request has a state of its own: under every interleaving of
\* the requests, the id, outcome and logError a request's middleware reads
\* are those of its own header and its own handler's calls so far, whatever
\* the handlers of the other requests have set; so its log line (id, error
\* field) and the counter incremented for it follow from its own calls.
CallsMade(t) == IF th[t].pc = "metrics" THEN 0
                ELSE IF th[t].pc = "plan" THEN th[t].i ELSE Len(rq[t].plan.calls)
LastLogError(t) == LastValue(rq[t].plan.calls, "logError", Len(rq[t].plan.calls))

C32_StatePerRequest ==
    /\ \A t \in Threads :
          Planned(t) =>
              /\ rq[t].st = [present |-> TRUE, id |-> OwnID(t),
                             outcome |-> LastValue(rq[t].plan.calls, "outcome", CallsMade(t)),
                             logError |-> LastValue(rq[t].plan.calls, "logError", CallsMade(t))]
              /\ th[t].pc = "done" =>
                    /\ Len(rq[t].log) = 1
                    /\ rq[t].log[1].request_id = OwnID(t)
                    /\ rq[t].log[1].error =
                          IF LastLogError(t) = "" THEN <<>> ELSE <<LastLogError(t)>>
    /\ reg.convSuccess + reg.convTimeout + reg.convFailed = Cardinality(Counted)
    /\ reg.convSuccess <= Cardinality({t \in Counted : LastOutcome(t) = "success"})
    /\ reg.convTimeout <= Cardinality({t \in Counted : LastOutcome(t) = "timeout"})

C32_Witness ==
    \E t, u \in Threads :
        /\ th[t].pc = "plan" /\ th[t].i = 1 /\ rq[t].plan.xid = "abc-123"
        /\ rq[t].st.outcome = "success" /\ rq[t].st.logError = ""
        /\ th[u].pc = "done" /\ rq[u].plan.xid = "my-existing-id"
        /\ rq[u].st.outcome = "success" /\ rq[u].st.logError = "test error"
        /\ rq[u].log[1].error = <<"test error">>
        /\ rq[u].log[1].request_id = "my-existing-id"
        /\ reg.convSuccess = 1 /\ reg.convInFlight = 1

\* C33: in every render of the metrics text, also one that runs beside
\* ObserveDuration calls, the bucket values rendered so far are
\* non-decreasing in ascending order of the thresholds.
BucketsRendered == IF rd.pc >= 4 + NumBuckets THEN NumBuckets
                   ELSE IF rd.pc > 4 THEN rd.pc - 4 ELSE 0

C33_RenderedBucketsMonotone ==
    \A i, j \in BucketIdx :
        (i < j /\ j <= BucketsRendered) => rd.out.bucket[i] <= rd.out.bucket[j]

\* C34: in every render, also one beside ObserveDuration calls, the value
\* of the +Inf line is at least every finite bucket value of that render:
\* observe adds to the total before any bucket, and writeTo loads the total
\* after the last bucket.
C34_InfAtLeastBuckets ==
    rd.pc >= 13 => \A i \in BucketIdx : rd.out.bucket[i] <= rd.out.inf

C34_Witness ==
    /\ rd.pc = 15
    /\ rd.out.bucket[1] = 0 /\ rd.out.bucket[NumBuckets] = 1 /\ rd.out.inf = 2
    /\ \E t \in Threads : InObserve(t)

\* C35: in every render, also one beside ObserveDuration calls, the +Inf
\* line and the _count line show the same value.
C35_InfEqualsCount ==
    rd.pc = 15 => rd.out.inf = rd.out.count

\* C36: whenever no request is inside the Metrics middleware and every
\* handler that ran returned normally (none panicked), the gauge is 0 and
\* success + timeout + failed equals the histogram total, which equals the
\* number of requests that have completed.
NoneInsideMetrics == \A t \in Threads : th[t].pc \in {"idle", "metrics", "log", "done"}
Completed == {t \in Threads : th[t].pc \in {"log", "done"} /\ HasLayer(t, "Metrics")}

C36_QuiescentTotals ==
    NoneInsideMetrics =>
        /\ reg.convInFlight = 0
        /\ reg.convSuccess + reg.convTimeout + reg.convFailed = reg.total
        /\ reg.total = Cardinality(Completed)

C36_Witness ==
    /\ \A t \in Threads : th[t].pc = "done" /\ HasLayer(t, "Metrics")
    /\ reg.convInFlight = 0
    /\ reg.total = Cardinality(Threads)
    /\ reg.convSuccess >= 1 /\ reg.convFailed >= 1

\* C37: the step that rejects a request in validation (405, 400, 413 or
\* 415) is the handler's first and leaves the file system as it was: no
\* temporary directory has been made for the request and Convert has not
\* been and is not called for it; and the step that calls Convert finds the
\* request's temporary directory there with the uploaded bytes, all of
\* them, written to the input path in it.
Rejections == {405, 400, 413, 415}

RejectedClean(t) ==
    rq[t].resp.status \in Rejections =>
        /\ rq[t].nconv = 0 /\ rq[t].tmpDir = 0 /\ rq[t].nresp = 1
        /\ th[t].pc \notin Staged \cup {"h_mkdir"}

InputWritten(t) ==
    /\ rq[t].tmpDir \in DOMAIN fs
    /\ fs[rq[t].tmpDir].hasInput
    /\ fs[rq[t].tmpDir].input = [len |-> rq[t].req.size, head |-> rq[t].req.head]

C37_RejectedTouchesNothing ==
    /\ [](\A t \in Threads :
            /\ RejectedClean(t)
            /\ th[t].pc = "converting" => InputWritten(t))
    /\ [][\A t \in Threads :
            /\ (rq[t].resp.status = 0 /\ rq'[t].resp.status \in Rejections) =>
                  th[t].pc = "h_start" /\ fs' = fs /\ rq[t].tmpDir = 0
            /\ rq'[t].nconv # rq[t].nconv =>
                  /\ InputWritten(t) /\ rq[t].nconv = 0
                  /\ rq[t].resp.status = 0]_vars

C37_Witness ==
    \E t \in Threads :
        /\ th[t].pc = "done" /\ rq[t].resp.status = 413
        /\ rq[t].req.size = maxFileSize + 1 /\ BeginsWithSignature(t)
        /\ rq[t].nconv = 0 /\ rq[t].tmpDir = 0 /\ DOMAIN fs = {}

\* C38: two requests handled at once never have the same temporary
\* directory, and no step of one request (its cleanup on return or on a
\* panic included) changes the directory of another request that is still
\* in flight: the directory stays, with the input, the artifact and all
\* else in it as they were.
InFlight(t) == th[t].pc \in Staged /\ rq[t].tmpDir # 0

C38_OwnDirectoryOnly ==
    /\ [](\A t, u \in Threads :
            (t # u /\ InFlight(t) /\ InFlight(u)) =>
                /\ rq[t].tmpDir # rq[u].tmpDir
                /\ rq[t].tmpDir \in DOMAIN fs /\ rq[u].tmpDir \in DOMAIN fs)
    /\ [][\A u \in Threads :
            (InFlight(u) /\ th'[u] = th[u] /\ rq'[u] = rq[u]) =>
                /\ rq[u].tmpDir \in DOMAIN fs'
                /\ fs'[rq[u].tmpDir] = fs[rq[u].tmpDir]]_vars

C38_Witness ==
    \E t, u \in Threads :
        /\ th[t].pc = "done" /\ rq[t].nconv = 1 /\ rq[t].resp.status = 200
        /\ th[u].pc = "h_result" /\ InFlight(u)
        /\ DOMAIN fs = {rq[u].tmpDir}
        /\ fs[rq[u].tmpDir].hasInput /\ fs[rq[u].tmpDir].hasPdf
        /\ fs[rq[u].tmpDir].pdf = rq[u].conv.pdf /\ rq[u].conv.pdf # <<>>

\* C39: a subprocess that exited on its own with a status other than zero
\* (it was not killed at the deadline) makes Convert return
\* ErrConversionFailed and never ErrTimeout, wherever the deadline falls
\* between its exit and the test of ctx.Err().
C39_OwnExitIsConversionFailed ==
    \A t \in Threads :
        (Returned(t) /\ rq[t].cv.proc = "exited" /\ rq[t].cv.code # 0) =>
            /\ Wraps(rq[t].cv.ret.err, "ErrConversionFailed")
            /\ ~Wraps(rq[t].cv.ret.err, "ErrTimeout")

====
